---- MODULE Spec2Model ----
(***************************************************************************)
(* Scan pipeline (scanner/common.py), local-first queue and background     *)
(* syncer (backend/core/syncer.py), print-job queue (backend/services/     *)
(* printing.py, backend/api/print_queue.py) and printer poller             *)
(* (printer/printer_poller.py) of dapurPintarMBG.                          *)
(***************************************************************************)
EXTENDS Integers, Sequences, FiniteSets, TLC

\* ------------------------------------------------------------------ bounds
MaxScans == 2      \* scan lines handled over all stations
MaxRejects == 1    \* scan lines that end in a scan error
MaxDay   == 1      \* day changes the clock runs through (days 0..MaxDay)
MaxJobs  == 2      \* print jobs enqueued by producers (print specification)
MaxWrites == 2     \* successful physical writes of one job
MaxCopies == 2     \* remote copies of one local scan-error row
MaxLines == 3      \* lines read by one station loop (debounce specification)
MaxFaults == 1     \* lines of one station loop during which something fails
MaxEvents == 3     \* rows of the backend's events table
MaxClock == 3      \* seconds of the backend's clock
MaxDeliveries == 3 \* webhook deliveries
MaxCalls == 2      \* tool calls in one reply of the model

\* --------------------------------------------------------------- constants
BHN_PREFIX == "BHN-"
TRAY_PREFIX == "TRY-"
TRAY_LEN == 12
\* DEBOUNCE_SECONDS = 0.7, in tenths of a second
DEBOUNCE_SECONDS == 7
DB_LOCK_RETRIES == 6

Stations == {"s1", "s2"}
Syncers == {"y1", "y2"}
\* run_scanner starts one sync thread on the station's local store
StationOf(y) == IF y = "y1" THEN "s1" ELSE "s2"
Steps == {"Processing", "Packing", "Delivery"}

\* A code is what extract_code hands to the validator: its prefix and its
\* total length are what the validators look at.
ItemA == [prefix |-> BHN_PREFIX, len |-> 10, tag |-> "A"]
TrayB == [prefix |-> TRAY_PREFIX, len |-> 12, tag |-> "B"]
ItemCodes == {ItemA}
TrayCodes == {TrayB}
ScanCodes == ItemCodes \cup TrayCodes

\* what else a scanned line can hold: nothing, an item code as long as a
\* tray code, tray codes one character short and long, a foreign code
EmptyCode == [prefix |-> "", len |-> 0, tag |-> ""]
ItemC == [prefix |-> BHN_PREFIX, len |-> 12, tag |-> "C"]
TrayShort == [prefix |-> TRAY_PREFIX, len |-> 11, tag |-> "D"]
TrayLong == [prefix |-> TRAY_PREFIX, len |-> 13, tag |-> "E"]
OtherCode == [prefix |-> "QR-", len |-> 12, tag |-> "F"]
ProbeCodes == ScanCodes \cup {EmptyCode, ItemC, TrayShort, TrayLong, OtherCode}

Pollers == {"p1", "p2"}
NoJob == [id |-> 0, tspl |-> [kind |-> "none"]]
\* A poller between cycles. failed (the job whose physical print raised in
\* the cycle just ended) and retry (the job whose print had failed in the
\* cycle before the current one) are history, and so are unacked (the job
\* whose print-complete call failed in the cycle just ended) and reprint (the
\* job whose print-complete had failed in the cycle before the current one).
IdlePoller == [pc |-> "idle", job |-> NoJob, failed |-> 0, retry |-> 0,
               unacked |-> 0, reprint |-> 0]
\* a response of GET /print-queue; seen and acked are history (the table
\* and the acknowledged ids when the server answered)
NoResp == [status |-> 0, jobs |-> <<>>, seen |-> <<>>, acked |-> {}]

\* no request served yet. before and after are the print_jobs table when the
\* request arrived and when it was answered.
NoCall == [op |-> "none", header |-> "", id |-> 0, status |-> 0,
           jobs |-> <<>>, ok |-> FALSE, detail |-> "", before |-> <<>>,
           after |-> <<>>]

\* no validator call yet. reads are the remote tables the call queried.
NoProbe == [mode |-> "", code |-> [prefix |-> "", len |-> 0, tag |-> ""],
            reachable |-> TRUE, ok |-> FALSE, reason |-> "", reads |-> <<>>]

\* run_scanner before its first line: last_code = None, last_time = 0.0;
\* now is the clock in tenths of a second, up that the loop is running
NoCode == [prefix |-> "none", len |-> 0, tag |-> ""]
NoLine == [last_code |-> NoCode, last_time |-> 0, now |-> 0, up |-> TRUE]

\* a NULL date column
NoDate == -1

NoItem == [exists |-> FALSE, receiving |-> FALSE, processing |-> FALSE,
           created_date_processing |-> NoDate]
NoTray == [exists |-> FALSE, packing |-> FALSE, delivery |-> FALSE,
           created_date_packing |-> NoDate,
           created_date_delivery |-> NoDate]

VARIABLES
  today,        \* date.today()
  items,        \* remote table items, by id
  trays,        \* remote table trays, by tray_id
  trayItems,    \* remote table tray_items: the registered tray ids
  remoteErrors, \* remote table scan_errors
  queue,        \* local_scan_queue of each station
  errs,         \* local_scan_errors of each station
  nextId,       \* next autoincrement id of each station's local tables
  syn,          \* each syncer thread: position, batch, remote transaction
  rejects,      \* history: number of scan lines that wrote a scan error
  accepted,     \* history: number of accepted scans per (code, step)
  scans,        \* history: number of handled scan lines
  enq,          \* history: every row ever appended to a local_scan_queue
  applied,      \* history: local rows whose remote transaction committed
  deleted,      \* history: local rows deleted by a syncer
  printJobs,    \* table print_jobs, in id order
  pol,          \* each poller: position and the job it holds
  written,      \* physical printer: successful writes per job id
  resp,         \* last response of GET /print-queue seen by each poller
  issued,       \* history: the ids db_create_print_job returned, in order
  acked,        \* history: the ids print-complete answered {"ok": true} for
  serverKey,    \* CLOUD_PRINT_KEY of the server ("" = none configured)
  pollerKey,    \* CLOUD_PRINT_KEY of each poller
  http,         \* history: the last request served by the print endpoints
  probe,        \* history: the last validator call and its result
  remoteEngine, \* a remote store handle is configured (DATABASE_URL set)
  deb,          \* run_scanner's loop: last_code, last_time, the clock
  log,          \* history: the scan lines read so far and what was reported
  retry,        \* the last run of _exec_retry: what each call did, the result
  events,       \* table events of the backend, in id order
  clock,        \* the backend's wall clock, in seconds
  req,          \* each worker thread of POST /api/scan: position, locals, answer
  apiTrays,     \* table trays of the backend: the ids inserted
  inboundSeen,  \* table inbound_seen: the message ids inserted
  hook,         \* each handler of POST /webhook: position, payload, index
  agentRuns,    \* history: calls of run_agent per message id
  markRet,      \* history: what the calls of mark_inbound_seen did, per id
  deliveries,   \* history: number of webhook deliveries received
  agent         \* one run of run_agent: position, round, sent_reply, sends

\* what the scan pipeline and the print queue never touch
scanApiVars == <<events, clock, req, apiTrays>>
hookVars == <<inboundSeen, hook, agentRuns, markRet, deliveries>>
sideVars == <<retry, scanApiVars, hookVars, agent>>
\* the stations, their syncers and the print queue
coreVars == <<today, items, trays, trayItems, remoteErrors, queue, errs,
              nextId, syn, rejects, accepted, scans, enq, applied, deleted,
              printJobs, pol, written, resp, issued, acked, serverKey,
              pollerKey, http, probe, remoteEngine, deb, log>>
\* what the backend's scan endpoint never touches
scanApiFrame == <<coreVars, retry, hookVars, agent>>
\* what the backend's webhook never touches
hookFrame == <<coreVars, retry, scanApiVars, agent>>
\* what run_agent's loop never touches
agentFrame == <<coreVars, retry, scanApiVars, hookVars>>
obsVars == <<http, probe, remoteEngine, deb, log, sideVars>>

pipeVars == <<today, items, trays, trayItems, remoteErrors, queue, errs,
              nextId, syn, rejects, accepted, scans, enq, applied, deleted>>
printVarsNoObs == <<printJobs, pol, written, resp, issued, acked, serverKey,
                   pollerKey>>
printVars == <<printJobs, pol, written, resp, issued, acked, serverKey,
               pollerKey, obsVars>>
vars == <<today, items, trays, trayItems, remoteErrors, queue, errs, nextId,
          syn, rejects, accepted, scans, enq, applied, deleted, printJobs, pol,
          written, resp, issued, acked, serverKey, pollerKey, http, probe,
          remoteEngine, deb, log, retry, events, clock, req, apiTrays,
          inboundSeen, hook, agentRuns, markRet, deliveries, agent>>

\* --------------------------------------------------------------- validators
StartsWith(code, prefix) == code.len > 0 /\ code.prefix = prefix

Reject(reason) == [ok |-> FALSE, reason |-> reason]
Accept == [ok |-> TRUE, reason |-> ""]

\* _get_remote_item: the row of the code, None when there is none
GetRemoteItem(code) ==
  IF remoteEngine /\ code \in ItemCodes /\ items[code].exists
  THEN items[code] ELSE NoItem

\* _get_remote_tray
GetRemoteTray(code) ==
  IF remoteEngine /\ code \in TrayCodes /\ trays[code].exists
  THEN trays[code] ELSE NoTray

\* _is_remote_tray_registered
IsRemoteTrayRegistered(code) == remoteEngine /\ code \in trayItems

\* ValidateProcessing asking for the processed mark before the received one
ValidateProcessingProcessedFirst(code, reachable) ==
  IF code.len = 0 THEN Reject("EMPTY_SCAN")
  ELSE IF ~StartsWith(code, BHN_PREFIX) THEN Reject("NOT_AN_INGREDIENT_CODE")
  ELSE IF remoteEngine /\ ~reachable
       THEN Reject("SUPABASE_UNREACHABLE")
  ELSE LET row == GetRemoteItem(code) IN
       IF ~row.exists THEN Reject("INGREDIENT_NOT_FOUND")
       ELSE IF row.processing THEN Reject("ALREADY_PROCESSED")
       ELSE IF ~row.receiving THEN Reject("NOT_RECEIVED")
       ELSE Accept

\* validate_processing; reachable = the remote read did not raise (without a
\* store handle there is no read to raise)
ValidateProcessing(code, reachable) ==
  IF code.len = 0 THEN Reject("EMPTY_SCAN")
  ELSE IF ~StartsWith(code, BHN_PREFIX) THEN Reject("NOT_AN_INGREDIENT_CODE")
  ELSE IF remoteEngine /\ ~reachable
       THEN Reject("SUPABASE_UNREACHABLE")
  ELSE LET row == GetRemoteItem(code) IN
       IF ~row.exists THEN Reject("INGREDIENT_NOT_FOUND")
       ELSE IF ~row.receiving THEN Reject("NOT_RECEIVED")
       ELSE IF row.processing THEN Reject("ALREADY_PROCESSED")
       ELSE Accept

\* ValidatePacking with the length check after the remote reads
ValidatePackingLengthLate(code, reachable) ==
  IF code.len = 0 THEN Reject("EMPTY_SCAN")
  ELSE IF ~StartsWith(code, TRAY_PREFIX) THEN Reject("NOT_A_TRAY_CODE")
  ELSE IF remoteEngine /\ ~reachable
       THEN Reject("SUPABASE_UNREACHABLE")
  ELSE IF code.len # TRAY_LEN THEN Reject("INVALID_TRAY_ID_LENGTH")
  ELSE LET row == GetRemoteTray(code) IN
       IF ~IsRemoteTrayRegistered(code) THEN Reject("TRAY_NOT_REGISTERED")
       ELSE IF row.exists /\ row.packing /\ row.created_date_packing = today
            THEN Reject("ALREADY_PACKED_TODAY")
       ELSE Accept

\* validate_packing
ValidatePacking(code, reachable) ==
  IF code.len = 0 THEN Reject("EMPTY_SCAN")
  ELSE IF ~StartsWith(code, TRAY_PREFIX) THEN Reject("NOT_A_TRAY_CODE")
  ELSE IF code.len # TRAY_LEN THEN Reject("INVALID_TRAY_ID_LENGTH")
  ELSE IF remoteEngine /\ ~reachable
       THEN Reject("SUPABASE_UNREACHABLE")
  ELSE LET row == GetRemoteTray(code) IN
       IF ~IsRemoteTrayRegistered(code) THEN Reject("TRAY_NOT_REGISTERED")
       ELSE IF row.exists /\ row.packing /\ row.created_date_packing = today
            THEN Reject("ALREADY_PACKED_TODAY")
       ELSE Accept

\* validate_delivery
ValidateDelivery(code, reachable) ==
  IF code.len = 0 THEN Reject("EMPTY_SCAN")
  ELSE IF ~StartsWith(code, TRAY_PREFIX) THEN Reject("NOT_A_TRAY_CODE")
  ELSE IF code.len # TRAY_LEN THEN Reject("INVALID_TRAY_ID_LENGTH")
  ELSE IF remoteEngine /\ ~reachable
       THEN Reject("SUPABASE_UNREACHABLE")
  ELSE LET row == GetRemoteTray(code) IN
       IF ~IsRemoteTrayRegistered(code) THEN Reject("TRAY_NOT_REGISTERED")
       ELSE IF ~row.exists \/ ~row.packing THEN Reject("NOT_PACKED")
       ELSE IF row.delivery /\ row.created_date_delivery = today
            THEN Reject("ALREADY_DELIVERED_TODAY")
       ELSE Accept

\* validators[mode](code)
Validate(mode, code, reachable) ==
  CASE mode = "Processing" -> ValidateProcessing(code, reachable)
    [] mode = "Packing"    -> ValidatePacking(code, reachable)
    [] mode = "Delivery"   -> ValidateDelivery(code, reachable)

\* The remote tables a validator call queries, in order: none before the
\* format checks have passed and none without a store handle; the first
\* query raises when the store is unreachable.
ValidatorReads(mode, code, reachable) ==
  LET all == IF code.len = 0 THEN <<>>
             ELSE IF mode = "Processing"
                  THEN IF ~StartsWith(code, BHN_PREFIX) THEN <<>>
                       ELSE <<"items">>
             ELSE IF ~StartsWith(code, TRAY_PREFIX) THEN <<>>
             ELSE IF code.len # TRAY_LEN THEN <<>>
             ELSE <<"tray_items", "trays">> IN
  IF ~remoteEngine THEN <<>>
  ELSE IF reachable \/ all = <<>> THEN all ELSE <<all[1]>>

\* One call validators[mode](code) on the store as it is: a pure read
Probe(mode, code, reachable) ==
  LET v == Validate(mode, code, reachable) IN
  /\ probe' = [mode |-> mode, code |-> code, reachable |-> reachable,
               ok |-> v.ok, reason |-> v.reason,
               reads |-> ValidatorReads(mode, code, reachable)]
  /\ UNCHANGED <<pipeVars, printJobs, pol, written, resp, issued, acked,
                 serverKey, pollerKey, http, remoteEngine, deb, log,
                 sideVars>>

\* write_label of run_scanner
WriteLabel(mode) ==
  CASE mode = "Processing" -> "processed"
    [] mode = "Packing"    -> "packed"
    [] mode = "Delivery"   -> "delivered"

\* generate_delivery_tspl: the payload is opaque to the queue
DeliveryTspl(code) == [kind |-> "delivery", code |-> code]

\* the primary key the next insert into print_jobs gets (rows are never
\* deleted, so it is one more than the number of rows)
NewJobId(jobs) == Len(jobs) + 1

\* db_create_print_job: insert with printed=0 and no printed_at
CreatePrintJob(jobs, tspl) ==
  Append(jobs, [id |-> NewJobId(jobs), tspl |-> tspl, printed |-> 0,
                printed_at |-> FALSE])

\* local_enqueue_scan: append one unsynced row to local_scan_queue
LocalEnqueueScan(q, id, code, mode, label) ==
  Append(q, [id |-> id, code |-> code, step |-> mode, label |-> label,
             synced |-> 0])

\* local_enqueue_error: append one unsynced row to local_scan_errors
LocalEnqueueError(e, id, code, mode, reason) ==
  Append(e, [id |-> id, code |-> code, step |-> mode, reason |-> reason,
             synced |-> 0])

\* the UPDATE of process_delivery_scan
MarkDelivered(t, code) ==
  IF code \in TrayCodes /\ t[code].exists
  THEN [t EXCEPT ![code].delivery = TRUE,
                 ![code].created_date_delivery = today]
  ELSE t

DeliveryOutcomes == {"ok", "alloc_fail", "print_fail"}

DebouncedInverted(code, t) ==
  /\ code.len > 0
  /\ code = deb.last_code
  /\ t - deb.last_time >= DEBOUNCE_SECONDS

\* the debounce test of run_scanner on a line read at time t
Debounced(code, t) ==
  /\ code.len > 0
  /\ code = deb.last_code
  /\ t - deb.last_time < DEBOUNCE_SECONDS

\* what one call of the wrapped operation does: it returns, it raises an
\* OperationalError naming a locked or busy database, it raises another error
CallOutcomes == {"ok", "locked", "error"}

RECURSIVE ExecRetryFromOneMore(_, _)
ExecRetryFromOneMore(outs, k) ==
  IF k > DB_LOCK_RETRIES + 1
  THEN [calls |-> DB_LOCK_RETRIES + 1, result |-> "raise",
        err |-> outs[DB_LOCK_RETRIES + 1]]
  ELSE IF outs[k] = "ok" THEN [calls |-> k, result |-> "ok", err |-> "none"]
  ELSE IF outs[k] = "locked" THEN ExecRetryFromOneMore(outs, k + 1)
  ELSE [calls |-> k, result |-> "raise", err |-> outs[k]]

RECURSIVE ExecRetryFromAnyError(_, _)
ExecRetryFromAnyError(outs, k) ==
  IF k > DB_LOCK_RETRIES
  THEN [calls |-> DB_LOCK_RETRIES, result |-> "raise",
        err |-> outs[DB_LOCK_RETRIES]]
  ELSE IF outs[k] = "ok" THEN [calls |-> k, result |-> "ok", err |-> "none"]
  ELSE ExecRetryFromAnyError(outs, k + 1)

\* _exec_retry from its k-th attempt on, outs[k] being what the k-th call of
\* the wrapped operation does: the number of calls made, the result and the
\* error raised
RECURSIVE ExecRetryFrom(_, _)
ExecRetryFrom(outs, k) ==
  IF k > DB_LOCK_RETRIES
  THEN [calls |-> DB_LOCK_RETRIES, result |-> "raise",
        err |-> outs[DB_LOCK_RETRIES]]
  ELSE IF outs[k] = "ok" THEN [calls |-> k, result |-> "ok", err |-> "none"]
  ELSE IF outs[k] = "locked" THEN ExecRetryFrom(outs, k + 1)
  ELSE [calls |-> k, result |-> "raise", err |-> outs[k]]

\* _exec_retry on a database that is locked for the first locks attempts
ExecRetry(locks) ==
  ExecRetryFrom([k \in 1..(DB_LOCK_RETRIES + 1) |->
                   IF k <= locks THEN "locked" ELSE "ok"], 1).result

NoRetry == [outs |-> <<>>, calls |-> 0, result |-> "none", err |-> "none"]

\* One run of _exec_retry around an operation whose calls do outs
ExecRetryRun(outs) ==
  /\ retry' = [outs |-> outs, calls |-> ExecRetryFrom(outs, 1).calls,
               result |-> ExecRetryFrom(outs, 1).result,
               err |-> ExecRetryFrom(outs, 1).err]
  /\ UNCHANGED <<pipeVars, printVarsNoObs, http, probe, remoteEngine, deb,
                 log, scanApiVars, hookVars, agent>>

\* where the station process can die while it handles a line: nowhere, after
\* the validator returned, after the first local write
Stops == {"none", "validated", "written"}

\* a line that has had no effect yet
NoEffect == [qrow |-> FALSE, erow |-> "", mark |-> FALSE, job |-> FALSE,
             out |-> "none", reason |-> "", up |-> TRUE]

CaughtStopping(e, eres) ==
  [e EXCEPT !.erow = IF eres THEN "EXCEPTION" ELSE "",
            !.out = "GAGAL", !.reason = "EXCEPTION", !.up = FALSE]

\* The except block of run_scanner: one more attempt to write a scan error
\* (eres: it succeeds), then the GAGAL block with the exception's text
Caught(e, eres) ==
  [e EXCEPT !.erow = IF eres THEN "EXCEPTION" ELSE "",
            !.out = "GAGAL", !.reason = "EXCEPTION"]

RejectedQueued(v) ==
  [NoEffect EXCEPT !.erow = v.reason, !.out = "GAGAL", !.reason = v.reason,
                   !.qrow = TRUE]

\* a line the validator rejected: the scan error row with the validator's
\* reason, then the GAGAL block
Rejected(v) ==
  [NoEffect EXCEPT !.erow = v.reason, !.out = "GAGAL", !.reason = v.reason]

\* a line the validator accepted, after local_enqueue_scan
Queued == [NoEffect EXCEPT !.qrow = TRUE]

AfterWriteReportFirst(v) ==
  IF v.ok THEN [NoEffect EXCEPT !.out = "SUKSES"]
  ELSE [NoEffect EXCEPT !.out = "GAGAL", !.reason = v.reason]

\* what a process that dies right after its first local write leaves
AfterWrite(v) ==
  IF v.ok THEN Queued ELSE [NoEffect EXCEPT !.erow = v.reason]

DeliveredPrintFailureSwallowed(dres, eres) ==
  IF dres = "alloc_fail" THEN Caught(Queued, eres)
  ELSE IF dres = "print_fail"
       THEN [Queued EXCEPT !.mark = TRUE, !.out = "SUKSES"]
  ELSE [Queued EXCEPT !.mark = TRUE, !.job = TRUE, !.out = "SUKSES"]

\* an accepted Delivery line: process_delivery_scan raises before its
\* UPDATE, or raises in db_create_print_job after the UPDATE committed, or
\* returns; what it raises reaches the except block of run_scanner
Delivered(dres, eres) ==
  IF dres = "alloc_fail" THEN Caught(Queued, eres)
  ELSE IF dres = "print_fail"
       THEN Caught([Queued EXCEPT !.mark = TRUE], eres)
  ELSE [Queued EXCEPT !.mark = TRUE, !.job = TRUE, !.out = "SUKSES"]

\* What the body of run_scanner's loop does with one line, given the
\* validator's answer v: qrow a local queue row, erow the reason of the scan
\* error row written ("" none), mark the delivered UPDATE, job the print job,
\* out and reason the status block, up whether the loop goes on. lw: the
\* outcome of the first local write; stop: where the process dies.
Handle(mode, v, dres, lw, eres, stop) ==
  IF stop = "validated" THEN NoEffect
  ELSE IF lw = "raise" THEN Caught(NoEffect, eres)
  ELSE IF stop = "written" THEN AfterWrite(v)
  ELSE IF ~v.ok THEN Rejected(v)
  ELSE IF mode # "Delivery" THEN [Queued EXCEPT !.out = "SUKSES"]
  ELSE Delivered(dres, eres)

\* The body of run_scanner's loop for one line at station st, applied to the
\* stores. reachable: the validator's remote read succeeds.
HandleLine(st, mode, code, reachable, dres, locks, eres, stop) ==
  \E e \in {Handle(mode, Validate(mode, code, reachable), dres,
                   ExecRetry(locks), eres, stop)} :
  /\ scans' = scans + 1
  /\ nextId' = [nextId EXCEPT ![st] = @ + 1]
  /\ queue' = IF e.qrow
              THEN [queue EXCEPT ![st] =
                      LocalEnqueueScan(@, nextId[st], code, mode,
                                       WriteLabel(mode))]
              ELSE queue
  /\ accepted' = IF e.qrow
                 THEN [accepted EXCEPT ![<<code, mode>>] = @ + 1]
                 ELSE accepted
  /\ enq' = IF e.qrow
            THEN enq \cup {[st |-> st, id |-> nextId[st], code |-> code,
                            step |-> mode]}
            ELSE enq
  /\ errs' = IF e.erow # ""
             THEN [errs EXCEPT ![st] =
                     LocalEnqueueError(@, nextId[st], code, mode, e.erow)]
             ELSE errs
  /\ rejects' = IF e.erow # "" THEN rejects + 1 ELSE rejects
  /\ trays' = IF e.mark THEN MarkDelivered(trays, code) ELSE trays
  /\ printJobs' = IF e.job
                  THEN CreatePrintJob(printJobs, DeliveryTspl(code))
                  ELSE printJobs
  /\ issued' = IF e.job THEN Append(issued, NewJobId(printJobs)) ELSE issued
  /\ UNCHANGED <<today, items, trayItems, remoteErrors, syn, applied,
                 deleted, pol, written, resp, acked, serverKey, pollerKey,
                 http, probe, remoteEngine, sideVars>>

\* One line of run_scanner's loop at station st that arrives past the
\* debounce window, with the local store writable and the process alive:
\* validate, record, report.
Scan(st, mode, code, reachable, dres) ==
  /\ scans < MaxScans
  /\ Handle(mode, Validate(mode, code, reachable), dres, "ok", TRUE,
            "none").erow # "" => rejects < MaxRejects
  /\ HandleLine(st, mode, code, reachable, dres, 0, TRUE, "none")
  /\ UNCHANGED <<deb, log>>

DebounceDropExtending(t) == [deb EXCEPT !.now = t, !.last_time = t]

\* a dropped line: the loop goes on to the next line, last_code and
\* last_time are not assigned
DebounceDrop(t) == [deb EXCEPT !.now = t]

\* what makes the handling of a line raise: the local write that runs out of
\* retries, the allocation or the print enqueue of an accepted Delivery scan
Raises(mode, v, dres, lw, stop) ==
  /\ stop # "validated"
  /\ \/ lw = "raise"
     \/ stop = "none" /\ v.ok /\ mode = "Delivery" /\ dres # "ok"

\* a line during which something fails: the delivery step, the local write,
\* the error write of the except block, or the process itself
Faulty(dres, locks, eres, stop) ==
  dres # "ok" \/ ExecRetry(locks) = "raise" \/ ~eres \/ stop # "none"

\* One line read by run_scanner's loop, gap tenths of a second after the
\* line before: dropped by the debounce, or handled.
Line(st, mode, code, gap, reachable, dres, locks, eres, stop) ==
  LET t == deb.now + gap
      v == Validate(mode, code, reachable)
      e == Handle(mode, v, dres, ExecRetry(locks), eres, stop) IN
  /\ deb.up
  /\ Len(log) < MaxLines
  /\ IF Debounced(code, t)
     THEN /\ deb' = DebounceDrop(t)
          /\ log' = Append(log, [st |-> st, mode |-> mode, code |-> code,
                                 t |-> t, id |-> 0, vok |-> FALSE,
                                 out |-> "dropped", reason |-> "",
                                 fault |-> FALSE, raised |-> FALSE])
          /\ UNCHANGED <<pipeVars, printVarsNoObs, http, probe, remoteEngine,
                         sideVars>>
     ELSE /\ HandleLine(st, mode, code, reachable, dres, locks, eres, stop)
          /\ deb' = IF stop # "none"
                    THEN [NoLine EXCEPT !.now = t]
                    ELSE [last_code |-> code, last_time |-> t, now |-> t,
                          up |-> e.up]
          /\ log' = Append(log, [st |-> st, mode |-> mode, code |-> code,
                                 t |-> t, id |-> nextId[st], vok |-> v.ok,
                                 out |-> e.out, reason |-> e.reason,
                                 fault |-> Faulty(dres, locks, eres, stop),
                                 raised |-> Raises(mode, v, dres,
                                                   ExecRetry(locks), stop)])

\* ------------------------------------------------------------------ syncer
\* The remote tables a transaction works on; ok = no statement has raised.
Db(i, t) == [items |-> i, trays |-> t, ok |-> TRUE]

\* RowOp with the Packing branch always inserting (no SELECT first)
RowOpAlwaysInsert(db, row, day) ==
  CASE row.step = "Processing" ->
         [kind |-> "update_item", code |-> row.code, day |-> day]
    [] row.step = "Packing" ->
         [kind |-> "insert_tray", code |-> row.code, day |-> day]
    [] row.step = "Delivery" ->
         [kind |-> "update_delivery", code |-> row.code, day |-> day]
    [] OTHER -> [kind |-> "none", code |-> row.code, day |-> day]

\* RowOp with the Packing branch a plain UPDATE like the other two
RowOpUpdateOnly(db, row, day) ==
  CASE row.step = "Processing" ->
         [kind |-> "update_item", code |-> row.code, day |-> day]
    [] row.step = "Packing" ->
         [kind |-> "update_packing", code |-> row.code, day |-> day]
    [] row.step = "Delivery" ->
         [kind |-> "update_delivery", code |-> row.code, day |-> day]
    [] OTHER -> [kind |-> "none", code |-> row.code, day |-> day]

\* The statement _sync_scans issues for one row, chosen against the rows the
\* transaction sees (db): Processing and Delivery are plain UPDATEs, Packing
\* is SELECT-then-UPDATE-or-INSERT.
RowOp(db, row, day) ==
  CASE row.step = "Processing" ->
         [kind |-> "update_item", code |-> row.code, day |-> day]
    [] row.step = "Packing" ->
         IF row.code \in TrayCodes /\ db.trays[row.code].exists
         THEN [kind |-> "update_packing", code |-> row.code, day |-> day]
         ELSE [kind |-> "insert_tray", code |-> row.code, day |-> day]
    [] row.step = "Delivery" ->
         [kind |-> "update_delivery", code |-> row.code, day |-> day]
    [] OTHER -> [kind |-> "none", code |-> row.code, day |-> day]

\* ApplyOp with the Packing UPDATE starting the tray's cycle over (delivery
\* cleared)
ApplyOpRepackResets(db, op) ==
  CASE ~db.ok -> db
    [] op.kind = "update_item" ->
         IF op.code \in ItemCodes /\ db.items[op.code].exists
         THEN [db EXCEPT !.items[op.code].processing = TRUE,
                         !.items[op.code].created_date_processing = op.day]
         ELSE db
    [] op.kind = "update_packing" ->
         IF op.code \in TrayCodes /\ db.trays[op.code].exists
         THEN [db EXCEPT !.trays[op.code].packing = TRUE,
                         !.trays[op.code].delivery = FALSE,
                         !.trays[op.code].created_date_packing = op.day]
         ELSE db
    [] op.kind = "insert_tray" ->
         IF op.code \notin TrayCodes \/ db.trays[op.code].exists
         THEN [db EXCEPT !.ok = FALSE]
         ELSE [db EXCEPT !.trays[op.code] =
                 [exists |-> TRUE, packing |-> TRUE, delivery |-> FALSE,
                  created_date_packing |-> op.day,
                  created_date_delivery |-> NoDate]]
    [] op.kind = "update_delivery" ->
         IF op.code \in TrayCodes /\ db.trays[op.code].exists
         THEN [db EXCEPT !.trays[op.code].delivery = TRUE,
                         !.trays[op.code].created_date_delivery = op.day]
         ELSE db
    [] OTHER -> db

\* ApplyOp with the item UPDATE leaving a flag that is already set alone
ApplyOpFirstWriteWins(db, op) ==
  CASE ~db.ok -> db
    [] op.kind = "update_item" ->
         IF op.code \in ItemCodes /\ db.items[op.code].exists
                                  /\ ~db.items[op.code].processing
         THEN [db EXCEPT !.items[op.code].processing = TRUE,
                         !.items[op.code].created_date_processing = op.day]
         ELSE db
    [] op.kind = "update_packing" ->
         IF op.code \in TrayCodes /\ db.trays[op.code].exists
         THEN [db EXCEPT !.trays[op.code].packing = TRUE,
                         !.trays[op.code].created_date_packing = op.day]
         ELSE db
    [] op.kind = "insert_tray" ->
         IF op.code \notin TrayCodes \/ db.trays[op.code].exists
         THEN [db EXCEPT !.ok = FALSE]
         ELSE [db EXCEPT !.trays[op.code] =
                 [exists |-> TRUE, packing |-> TRUE, delivery |-> FALSE,
                  created_date_packing |-> op.day,
                  created_date_delivery |-> NoDate]]
    [] op.kind = "update_delivery" ->
         IF op.code \in TrayCodes /\ db.trays[op.code].exists
         THEN [db EXCEPT !.trays[op.code].delivery = TRUE,
                         !.trays[op.code].created_date_delivery = op.day]
         ELSE db
    [] OTHER -> db

\* The effect of one statement. An UPDATE whose WHERE matches no row changes
\* nothing; an INSERT of a tray_id that is already there raises (trays are
\* keyed by their unique code).
ApplyOp(db, op) ==
  CASE ~db.ok -> db
    [] op.kind = "update_item" ->
         IF op.code \in ItemCodes /\ db.items[op.code].exists
         THEN [db EXCEPT !.items[op.code].processing = TRUE,
                         !.items[op.code].created_date_processing = op.day]
         ELSE db
    [] op.kind = "update_packing" ->
         IF op.code \in TrayCodes /\ db.trays[op.code].exists
         THEN [db EXCEPT !.trays[op.code].packing = TRUE,
                         !.trays[op.code].created_date_packing = op.day]
         ELSE db
    [] op.kind = "insert_tray" ->
         IF op.code \notin TrayCodes \/ db.trays[op.code].exists
         THEN [db EXCEPT !.ok = FALSE]
         ELSE [db EXCEPT !.trays[op.code] =
                 [exists |-> TRUE, packing |-> TRUE, delivery |-> FALSE,
                  created_date_packing |-> op.day,
                  created_date_delivery |-> NoDate]]
    [] op.kind = "update_delivery" ->
         IF op.code \in TrayCodes /\ db.trays[op.code].exists
         THEN [db EXCEPT !.trays[op.code].delivery = TRUE,
                         !.trays[op.code].created_date_delivery = op.day]
         ELSE db
    [] OTHER -> db

RECURSIVE ApplyOps(_, _)
ApplyOps(db, ops) ==
  IF ops = <<>> THEN db ELSE ApplyOps(ApplyOp(db, Head(ops)), Tail(ops))

\* One iteration of the for loop of _sync_scans on the tables db
ApplyRow(db, row, day) == ApplyOp(db, RowOp(db, row, day))

RowIds(rows) == {rows[k].id : k \in 1..Len(rows)}

\* select(local_scan_queue).where(synced == 0)
SelectUnsynced(q) == SelectSeq(q, LAMBDA r : r.synced = 0)

\* DeleteIds as DELETE ... WHERE synced = 0
DeleteAllUnsynced(q, ids) == SelectSeq(q, LAMBDA r : r.synced # 0)

\* local_scan_queue.delete().where(id.in_(synced_ids))
DeleteIds(q, ids) == SelectSeq(q, LAMBDA r : r.id \notin ids)

\* A sync thread between cycles. mark (the local id counter at the thread's
\* last read) and replay (its last commit re-applied a row committed before)
\* are history.
Idle(mark) == [pc |-> "sleep", rows |-> <<>>, i |-> 1, ops |-> <<>>,
               mark |-> mark, replay |-> FALSE]

Keys(st, ids) == {<<st, id>> : id \in ids}

\* _sync_scans, the local read (lines 37-43)
SyncRead(y) ==
  LET st == StationOf(y)
      rows == SelectUnsynced(queue[st]) IN
  /\ syn[y].pc = "sleep"
  /\ remoteEngine
  /\ syn' = [syn EXCEPT ![y] =
       [pc |-> IF rows = <<>> THEN "errors" ELSE "scans",
        rows |-> rows, i |-> 1, ops |-> <<>>, mark |-> nextId[st],
        replay |-> FALSE]]
  /\ UNCHANGED <<today, items, trays, trayItems, remoteErrors, queue, errs,
                 nextId, rejects, accepted, scans, enq, applied, deleted, printVars>>

\* _sync_scans, one row of the loop inside the remote transaction
SyncApply(y) ==
  LET view == ApplyOps(Db(items, trays), syn[y].ops) IN
  /\ syn[y].pc = "scans"
  /\ syn[y].i <= Len(syn[y].rows)
  /\ syn' = [syn EXCEPT ![y].i = @ + 1,
                        ![y].ops = Append(@, RowOp(view, syn[y].rows[syn[y].i],
                                                   today))]
  /\ UNCHANGED <<today, items, trays, trayItems, remoteErrors, queue, errs,
                 nextId, rejects, accepted, scans, enq, applied, deleted, printVars>>

\* _sync_scans, leaving the with block: the transaction commits, or a
\* statement of it raised and the cycle ends in _sync_cycle's except
SyncCommit(y) ==
  LET db == ApplyOps(Db(items, trays), syn[y].ops) IN
  /\ syn[y].pc = "scans"
  /\ syn[y].i > Len(syn[y].rows)
  /\ IF db.ok
     THEN /\ items' = db.items
          /\ trays' = db.trays
          /\ applied' = applied \cup Keys(StationOf(y), RowIds(syn[y].rows))
          /\ syn' = [syn EXCEPT ![y].pc = "delete",
                                ![y].replay =
                                  (Keys(StationOf(y), RowIds(syn[y].rows))
                                     \cap applied # {})]
     ELSE /\ syn' = [syn EXCEPT ![y] = Idle(syn[y].mark)]
          /\ UNCHANGED <<items, trays, applied>>
  /\ UNCHANGED <<today, trayItems, remoteErrors, queue, errs, nextId, rejects,
                 accepted, scans, enq, deleted, printVars>>

\* _sync_scans, the local delete (lines 100-105)
SyncDelete(y) ==
  LET st == StationOf(y)
      ids == RowIds(syn[y].rows) IN
  /\ syn[y].pc = "delete"
  /\ queue' = [queue EXCEPT ![st] = DeleteIds(@, ids)]
  /\ deleted' = deleted \cup Keys(st, RowIds(queue[st]) \ RowIds(queue'[st]))
  /\ syn' = [syn EXCEPT ![y].pc = "errors"]
  /\ UNCHANGED <<today, items, trays, trayItems, remoteErrors, errs, nextId,
                 rejects, accepted, scans, enq, applied, printVars>>

\* _sync_errors, the local read (lines 111-117)
SyncErrRead(y) ==
  LET rows == SelectUnsynced(errs[StationOf(y)]) IN
  /\ syn[y].pc = "errors"
  /\ syn' = [syn EXCEPT ![y] =
       IF rows = <<>> THEN Idle(syn[y].mark)
       ELSE [pc |-> "errpush", rows |-> rows, i |-> 1, ops |-> <<>>,
             mark |-> syn[y].mark, replay |-> FALSE]]
  /\ UNCHANGED <<today, items, trays, trayItems, remoteErrors, queue, errs,
                 nextId, rejects, accepted, scans, enq, applied, deleted, printVars>>

\* _sync_errors, the remote transaction inserting every row read
SyncErrCommit(y) ==
  LET ks == Keys(StationOf(y), RowIds(syn[y].rows)) IN
  /\ syn[y].pc = "errpush"
  /\ remoteErrors' = [k \in DOMAIN remoteErrors |->
                        IF k \in ks THEN remoteErrors[k] + 1
                        ELSE remoteErrors[k]]
  /\ syn' = [syn EXCEPT ![y].pc = "errdelete"]
  /\ UNCHANGED <<today, items, trays, trayItems, queue, errs, nextId, rejects,
                 accepted, scans, enq, applied, deleted, printVars>>

\* _sync_errors, the local delete (lines 130-135)
SyncErrDelete(y) ==
  /\ syn[y].pc = "errdelete"
  /\ errs' = [errs EXCEPT ![StationOf(y)] = DeleteIds(@, RowIds(syn[y].rows))]
  /\ syn' = [syn EXCEPT ![y] = Idle(syn[y].mark)]
  /\ UNCHANGED <<today, items, trays, trayItems, remoteErrors, queue, nextId,
                 rejects, accepted, scans, enq, applied, deleted, printVars>>

\* SyncFail with every statement committed on its own (no transaction)
SyncFailCommitting(y) ==
  LET db == ApplyOps(Db(items, trays), syn[y].ops) IN
  /\ syn[y].pc \in {"scans", "delete", "errpush", "errdelete"}
  /\ syn[y].pc = "errdelete" =>
       \A k \in Keys(StationOf(y), RowIds(syn[y].rows)) :
          remoteErrors[k] < MaxCopies
  /\ syn' = [syn EXCEPT ![y] = Idle(syn[y].mark)]
  /\ items' = IF syn[y].pc = "scans" THEN db.items ELSE items
  /\ trays' = IF syn[y].pc = "scans" THEN db.trays ELSE trays
  /\ UNCHANGED <<today, trayItems, remoteErrors, queue, errs,
                 nextId, rejects, accepted, scans, enq, applied, deleted, printVars>>

\* SyncFail with the local delete executed on the failure path too
SyncFailDeleting(y) ==
  LET st == StationOf(y)
      ids == RowIds(syn[y].rows) IN
  /\ syn[y].pc \in {"scans", "delete", "errpush", "errdelete"}
  /\ syn' = [syn EXCEPT ![y] = Idle(syn[y].mark)]
  /\ IF syn[y].pc \in {"scans", "delete"}
     THEN /\ queue' = [queue EXCEPT ![st] = DeleteIds(@, ids)]
          /\ deleted' = deleted \cup
                          Keys(st, RowIds(queue[st]) \ RowIds(queue'[st]))
     ELSE UNCHANGED <<queue, deleted>>
  /\ UNCHANGED <<today, items, trays, trayItems, remoteErrors, errs,
                 nextId, rejects, accepted, scans, enq, applied, printVars>>

\* A remote or local statement of the cycle raises (unreachable, timeout,
\* locked) or the process dies: nothing of an open transaction is committed,
\* _sync_cycle catches and _sync_loop sleeps until the next cycle. A failure
\* after the error batch committed is what re-inserts it: MaxCopies bounds it.
SyncFail(y) ==
  /\ syn[y].pc \in {"scans", "delete", "errpush", "errdelete"}
  /\ syn[y].pc = "errdelete" =>
       \A k \in Keys(StationOf(y), RowIds(syn[y].rows)) :
          remoteErrors[k] < MaxCopies
  /\ syn' = [syn EXCEPT ![y] = Idle(syn[y].mark)]
  /\ UNCHANGED <<today, items, trays, trayItems, remoteErrors, queue, errs,
                 nextId, rejects, accepted, scans, enq, applied, deleted, printVars>>


\* ------------------------------------------------------------- print queue
\* the oldest job when jobs are ordered newest first
NextPrintJobNewest(jobs) ==
  LET pending == SelectSeq(jobs, LAMBDA j : j.printed = 0) IN
  IF pending = <<>> THEN <<>> ELSE <<pending[Len(pending)]>>

\* db_get_next_print_job: WHERE printed = 0 ORDER BY id ASC LIMIT 1, as a
\* list of at most one row
NextPrintJob(jobs) ==
  LET pending == SelectSeq(jobs, LAMBDA j : j.printed = 0) IN
  IF pending = <<>> THEN <<>> ELSE <<Head(pending)>>

\* MarkPrinted as UPDATE ... WHERE id <= job_id
MarkPrintedUpTo(jobs, job_id) ==
  [k \in 1..Len(jobs) |->
     IF jobs[k].id <= job_id
     THEN [jobs[k] EXCEPT !.printed = 1, !.printed_at = TRUE]
     ELSE jobs[k]]

\* an UPDATE that sets printed_at and leaves the flag
MarkPrintedAtOnly(jobs, job_id) ==
  [k \in 1..Len(jobs) |->
     IF jobs[k].id = job_id
     THEN [jobs[k] EXCEPT !.printed_at = TRUE]
     ELSE jobs[k]]

\* an UPDATE that flips the flag
MarkPrintedToggle(jobs, job_id) ==
  [k \in 1..Len(jobs) |->
     IF jobs[k].id = job_id
     THEN [jobs[k] EXCEPT !.printed = 1 - @, !.printed_at = TRUE]
     ELSE jobs[k]]

\* db_mark_print_job_printed: UPDATE ... WHERE id = job_id
MarkPrinted(jobs, job_id) ==
  [k \in 1..Len(jobs) |->
     IF jobs[k].id = job_id
     THEN [jobs[k] EXCEPT !.printed = 1, !.printed_at = TRUE]
     ELSE jobs[k]]

\* the X-Print-Key header poll_once sends: none when its key is empty
HeaderOf(p) == pollerKey[p]

\* Authorised letting every request that carries a header through
AuthorisedAnyHeader(key, header) == key = "" \/ header # ""

\* the key check of print_queue and print_complete
Authorised(key, header) == key = "" \/ (header # "" /\ header = key)

\* the body of print_queue's answer for a row: id and tspl only
JobView(job) == [id |-> job.id, tspl |-> job.tspl]

\* the X-Print-Key header of a request from any client ("" = none sent)
Headers == {"", "k1", "k2"}

\* GET /print-queue as the server handles it, whoever sends it
ApiPrintQueue(header) ==
  LET ok == Authorised(serverKey, header)
      jobs == NextPrintJob(printJobs) IN
  /\ http' = [op |-> "GET", header |-> header, id |-> 0,
              status |-> IF ok THEN 200 ELSE 403,
              jobs |-> IF ok /\ jobs # <<>> THEN <<JobView(jobs[1])>>
                       ELSE <<>>,
              ok |-> FALSE, detail |-> IF ok THEN "" ELSE "Forbidden",
              before |-> printJobs, after |-> printJobs]
  /\ UNCHANGED <<pipeVars, printJobs, pol, written, resp, issued, acked,
                 serverKey, pollerKey, probe, remoteEngine, deb, log,
                 sideVars>>

\* POST /print-complete with body {"id": id} as the server handles it;
\* stored: the UPDATE of db_mark_print_job_printed commits (otherwise it
\* raises and its transaction is rolled back)
ApiPrintComplete(header, id, stored) ==
  LET ok == Authorised(serverKey, header)
      after == IF ok /\ stored THEN MarkPrinted(printJobs, id)
               ELSE printJobs IN
  /\ printJobs' = after
  /\ acked' = IF ok /\ stored THEN acked \cup {id} ELSE acked
  /\ http' = [op |-> "POST", header |-> header, id |-> id,
              status |-> IF ~ok THEN 403 ELSE IF stored THEN 200 ELSE 500,
              jobs |-> <<>>, ok |-> ok /\ stored,
              detail |-> IF ~ok THEN "Forbidden"
                         ELSE IF stored THEN "" ELSE "error",
              before |-> printJobs, after |-> after]
  /\ UNCHANGED <<pipeVars, pol, written, resp, issued, serverKey, pollerKey,
                 probe, remoteEngine, deb, log, sideVars>>

\* A producer enqueues a label (tool_create_item, the receiving page)
EnqueueJob(tspl) ==
  /\ Len(printJobs) < MaxJobs
  /\ printJobs' = CreatePrintJob(printJobs, tspl)
  /\ issued' = Append(issued, NewJobId(printJobs))
  /\ UNCHANGED <<pipeVars, pol, written, resp, acked, serverKey, pollerKey, obsVars>>

\* poll_once, step 1: GET /print-queue and its answer
PollGet(p) ==
  LET jobs == NextPrintJob(printJobs)
      ok == Authorised(serverKey, HeaderOf(p))
      out == IF ok /\ jobs # <<>> THEN <<JobView(jobs[1])>> ELSE <<>> IN
  /\ pol[p].pc = "idle"
  /\ resp' = [resp EXCEPT ![p] =
       [status |-> IF ok THEN 200 ELSE 403, jobs |-> out,
        seen |-> printJobs, acked |-> acked]]
  /\ pol' = [pol EXCEPT ![p] =
       IF out = <<>>
       THEN [pc |-> "idle", job |-> NoJob, failed |-> 0,
             retry |-> pol[p].failed, unacked |-> 0,
             reprint |-> pol[p].unacked]
       ELSE [pc |-> "got", job |-> out[1], failed |-> 0,
             retry |-> pol[p].failed, unacked |-> 0,
             reprint |-> pol[p].unacked]]
  /\ UNCHANGED <<pipeVars, printJobs, written, issued, acked, serverKey,
                 pollerKey, obsVars>>

\* poll_once, step 2: send_raw_to_printer returns
PollPrint(p) ==
  /\ pol[p].pc = "got"
  /\ written[pol[p].job.id] < MaxWrites
  /\ written' = [written EXCEPT ![pol[p].job.id] = @ + 1]
  /\ pol' = [pol EXCEPT ![p].pc = "printed", ![p].retry = 0]
  /\ UNCHANGED <<pipeVars, printJobs, resp, issued, acked, serverKey,
                 pollerKey, obsVars>>

\* PollPrintFail going on to step 3 as if the write had returned
PollPrintFailAcking(p) ==
  /\ pol[p].pc = "got"
  /\ pol' = [pol EXCEPT ![p].pc = "printed"]
  /\ UNCHANGED <<pipeVars, printJobs, written, resp, issued, acked, serverKey,
                 pollerKey, obsVars>>

\* poll_once, step 2: send_raw_to_printer raises; main logs and sleeps
PollPrintFail(p) ==
  /\ pol[p].pc = "got"
  /\ pol' = [pol EXCEPT ![p] =
       [pc |-> "idle", job |-> NoJob, failed |-> pol[p].job.id, retry |-> 0,
        unacked |-> 0, reprint |-> 0]]
  /\ UNCHANGED <<pipeVars, printJobs, written, resp, issued, acked, serverKey,
                 pollerKey, obsVars>>

\* PollComplete with the loop of main left on a failed call
PollCompleteStopping(p, delivered) ==
  LET ok == delivered /\ Authorised(serverKey, HeaderOf(p)) IN
  /\ pol[p].pc = "printed"
  /\ printJobs' = IF ok THEN MarkPrinted(printJobs, pol[p].job.id)
                  ELSE printJobs
  /\ acked' = IF ok THEN acked \cup {pol[p].job.id} ELSE acked
  /\ pol' = [pol EXCEPT ![p] =
       IF ok THEN IdlePoller
       ELSE [IdlePoller EXCEPT !.pc = "stopped", !.unacked = pol[p].job.id]]
  /\ UNCHANGED <<pipeVars, written, resp, issued, serverKey, pollerKey,
                 obsVars>>

\* poll_once, step 3: POST /print-complete. delivered: the request reaches
\* print_complete and its UPDATE commits; otherwise the call fails (network,
\* HTTP 500) with nothing written. Either way the cycle ends.
PollComplete(p, delivered) ==
  LET ok == delivered /\ Authorised(serverKey, HeaderOf(p)) IN
  /\ pol[p].pc = "printed"
  /\ printJobs' = IF ok THEN MarkPrinted(printJobs, pol[p].job.id)
                  ELSE printJobs
  /\ acked' = IF ok THEN acked \cup {pol[p].job.id} ELSE acked
  /\ pol' = [pol EXCEPT ![p] =
       [IdlePoller EXCEPT !.unacked = IF ok THEN 0 ELSE pol[p].job.id]]
  /\ UNCHANGED <<pipeVars, written, resp, issued, serverKey, pollerKey,
                 obsVars>>

\* poll_once, step 3 failing: the call is lost (network error, HTTP error)
\* while the job has been written fewer than MaxWrites times
PollCompleteLost(p) ==
  /\ pol[p].pc = "printed"
  /\ written[pol[p].job.id] < MaxWrites
  /\ PollComplete(p, FALSE)

\* ------------------------------------------------------------- environment
\* Receiving creates the item with its received flag
Receive(code) ==
  /\ ~items[code].exists
  /\ items' = [items EXCEPT ![code] =
                 [exists |-> TRUE, receiving |-> TRUE, processing |-> FALSE,
                  created_date_processing |-> NoDate]]
  /\ UNCHANGED <<today, trays, trayItems, remoteErrors, queue, errs, nextId,
                 syn, rejects, accepted, scans, enq, applied, deleted, printVars>>

\* Registering a tray adds it to tray_items
RegisterTray(code) ==
  /\ code \notin trayItems
  /\ trayItems' = trayItems \cup {code}
  /\ UNCHANGED <<today, items, trays, remoteErrors, queue, errs, nextId, syn,
                 rejects, accepted, scans, enq, applied, deleted, printVars>>

\* Midnight passes
NextDay ==
  /\ today < MaxDay
  /\ today' = today + 1
  /\ UNCHANGED <<items, trays, trayItems, remoteErrors, queue, errs, nextId,
                 syn, rejects, accepted, scans, enq, applied, deleted, printVars>>

\* ------------------------------------------------- POST /api/scan (backend)
\* the worker threads that serve the endpoint (a def endpoint runs in the
\* server's thread pool)
ApiThreads == {"r1", "r2"}
DeviceTokens == {"tok-processing", "tok-packing", "tok-delivery"}
SentTokens == DeviceTokens \cup {"", "tok-other"}
SentCodes == {"", " ", "TRY-1"}
DEDUPE_SECONDS == 2

\* TOKENS.get(x_device_token)
TOKENS(token) ==
  CASE token = "tok-processing" -> "processing"
    [] token = "tok-packing" -> "packing"
    [] token = "tok-delivery" -> "delivery"
    [] OTHER -> "none"

\* PREV_REQUIRED.get(division)
PREV_REQUIRED(division) ==
  CASE division = "packing" -> "processing"
    [] division = "delivery" -> "packing"
    [] OTHER -> "none"

\* (payload.code or "").strip()
StripCode(code) == IF code = " " THEN "" ELSE code

NoEvent == [tray |-> "", division |-> "none", ts |-> 0]

\* db_last_event("tray", tray_id): the row with the highest id
DbLastEvent(evs, tray) ==
  LET ks == {k \in 1..Len(evs) : evs[k].tray = tray} IN
  IF ks = {} THEN NoEvent
  ELSE evs[CHOOSE k \in ks : \A j \in ks : j <= k]

\* _dedupe, read at time now
Dedupe(evs, tray, division, now) ==
  LET last == DbLastEvent(evs, tray) IN
  /\ last # NoEvent
  /\ last.division = division
  /\ now - last.ts <= DEDUPE_SECONDS

\* _validate_chain
ValidateChain(evs, tray, division) ==
  \/ PREV_REQUIRED(division) = "none"
  \/ /\ DbLastEvent(evs, tray) # NoEvent
     /\ DbLastEvent(evs, tray).division = PREV_REQUIRED(division)

IdleReq == [pc |-> "idle", token |-> "", code |-> "", division |-> "none",
            tray |-> "", ts |-> 0, status |-> 0, message |-> "none"]

Answer(r, status, message) ==
  req' = [req EXCEPT ![r] = [IdleReq EXCEPT !.status = status,
                                            !.message = message]]

InFlight == {r \in ApiThreads : req[r].pc # "idle"}

\* a request reaches a worker thread
ApiScanReceive(r, token, code) ==
  /\ req[r].pc = "idle"
  /\ Len(events) + Cardinality(InFlight) < MaxEvents
  /\ req' = [req EXCEPT ![r] = [IdleReq EXCEPT !.pc = "token",
                                               !.token = token,
                                               !.code = code]]
  /\ UNCHANGED <<events, clock, apiTrays, scanApiFrame>>

\* api_scan up to the dedupe: the token and the code
ApiScanCheck(r) ==
  /\ req[r].pc = "token"
  /\ IF TOKENS(req[r].token) = "none"
     THEN Answer(r, 401, "Unauthorized device")
     ELSE IF StripCode(req[r].code) = ""
     THEN Answer(r, 400, "Empty code")
     ELSE req' = [req EXCEPT ![r].pc = "dedupe",
                             ![r].division = TOKENS(req[r].token),
                             ![r].tray = StripCode(req[r].code)]
  /\ UNCHANGED <<events, clock, apiTrays, scanApiFrame>>

ApiScanDedupe(r) ==
  /\ req[r].pc = "dedupe"
  /\ IF Dedupe(events, req[r].tray, req[r].division, clock)
     THEN Answer(r, 200, "Duplicate ignored")
     ELSE req' = [req EXCEPT ![r].pc = "chain"]
  /\ UNCHANGED <<events, clock, apiTrays, scanApiFrame>>

ApiScanValidate(r) ==
  /\ req[r].pc = "chain"
  /\ IF ValidateChain(events, req[r].tray, req[r].division)
     THEN req' = [req EXCEPT ![r].pc = "tray"]
     ELSE Answer(r, 409, "Urutan salah")
  /\ UNCHANGED <<events, clock, apiTrays, scanApiFrame>>

\* db_insert_tray_if_needed, then ts_local = _now_iso()
ApiScanTray(r) ==
  /\ req[r].pc = "tray"
  /\ apiTrays' = apiTrays \cup {req[r].tray}
  /\ req' = [req EXCEPT ![r].pc = "event", ![r].ts = clock]
  /\ UNCHANGED <<events, clock, scanApiFrame>>

\* db_insert_event and the answer
ApiScanEvent(r) ==
  /\ req[r].pc = "event"
  /\ events' = Append(events, [tray |-> req[r].tray,
                               division |-> req[r].division,
                               ts |-> req[r].ts])
  /\ Answer(r, 200, "Success")
  /\ UNCHANGED <<clock, apiTrays, scanApiFrame>>

\* a second passes
ApiTick ==
  /\ clock < MaxClock
  /\ clock' = clock + 1
  /\ UNCHANGED <<events, req, apiTrays, scanApiFrame>>

InitScanApi ==
  /\ events = <<>>
  /\ clock = 0
  /\ req = [r \in ApiThreads |-> IdleReq]
  /\ apiTrays = {}

\* ------------------------------------------------- POST /webhook (backend)
\* the handlers that can be inside webhook() at the same time (one per
\* server process on the same database)
Hooks == {"h1", "h2"}
MsgIds == {"m1", "m2"}
\* msg.get("id"), msg.get("from"): "" is an absent id
Msgs == [id : MsgIds \cup {""}, from : BOOLEAN]
WebhookPayloads == {<<m>> : m \in Msgs} \cup
                   {<<m, n>> : m \in {x \in Msgs : x.from}, n \in {x \in Msgs : x.from}}

IdleHook == [pc |-> "idle", msgs |-> <<>>, i |-> 0]

Mid(h) == hook[h].msgs[hook[h].i].id

\* the loop of webhook() goes to msgs[i + 1] or returns
NextMsg(h) ==
  IF hook[h].i < Len(hook[h].msgs)
  THEN [hook[h] EXCEPT !.pc = "mark", !.i = @ + 1]
  ELSE IdleHook

Returned(id, ret) == markRet' = [markRet EXCEPT ![id] = Append(@, ret)]

\* a delivery reaches a handler: payload = await request.json()
WebhookReceive(h, msgs) ==
  /\ hook[h].pc = "idle"
  /\ deliveries < MaxDeliveries
  /\ deliveries' = deliveries + 1
  /\ hook' = [hook EXCEPT ![h] = [pc |-> "mark", msgs |-> msgs, i |-> 1]]
  /\ UNCHANGED <<inboundSeen, agentRuns, markRet, hookFrame>>

\* mark_inbound_seen up to its SELECT
MarkSelect(h) ==
  /\ hook[h].pc = "mark"
  /\ IF Mid(h) = ""
     THEN /\ Returned("", "False")
          /\ hook' = [hook EXCEPT ![h] =
                        IF hook[h].msgs[hook[h].i].from
                        THEN [hook[h] EXCEPT !.pc = "agent"]
                        ELSE NextMsg(h)]
     ELSE IF Mid(h) \in inboundSeen
     THEN /\ Returned(Mid(h), "True")
          /\ hook' = [hook EXCEPT ![h] = NextMsg(h)]
     ELSE /\ hook' = [hook EXCEPT ![h].pc = "insert"]
          /\ UNCHANGED markRet
  /\ UNCHANGED <<inboundSeen, agentRuns, deliveries, hookFrame>>

\* an INSERT that does not meet the primary key
MarkInsertNoKey(h) ==
  /\ hook[h].pc = "insert"
  /\ inboundSeen' = inboundSeen \cup {Mid(h)}
  /\ Returned(Mid(h), "False")
  /\ hook' = [hook EXCEPT ![h] =
                IF hook[h].msgs[hook[h].i].from
                THEN [hook[h] EXCEPT !.pc = "agent"]
                ELSE NextMsg(h)]
  /\ UNCHANGED <<agentRuns, deliveries, hookFrame>>

\* mark_inbound_seen's INSERT and commit; the id is the primary key, so the
\* INSERT raises when another handler has inserted it since the SELECT, and
\* webhook()'s except ends the handler
MarkInsert(h) ==
  /\ hook[h].pc = "insert"
  /\ IF Mid(h) \in inboundSeen
     THEN /\ Returned(Mid(h), "raise")
          /\ hook' = [hook EXCEPT ![h] = IdleHook]
          /\ UNCHANGED inboundSeen
     ELSE /\ inboundSeen' = inboundSeen \cup {Mid(h)}
          /\ Returned(Mid(h), "False")
          /\ hook' = [hook EXCEPT ![h] =
                        IF hook[h].msgs[hook[h].i].from
                        THEN [hook[h] EXCEPT !.pc = "agent"]
                        ELSE NextMsg(h)]
  /\ UNCHANGED <<agentRuns, deliveries, hookFrame>>

\* run_agent(phone, ...): it returns, or raises into webhook()'s except
WebhookRunAgent(h, raises) ==
  /\ hook[h].pc = "agent"
  /\ agentRuns' = [agentRuns EXCEPT ![Mid(h)] = @ + 1]
  /\ hook' = [hook EXCEPT ![h] = IF raises THEN IdleHook ELSE NextMsg(h)]
  /\ UNCHANGED <<inboundSeen, markRet, deliveries, hookFrame>>

InitHook ==
  /\ inboundSeen = {}
  /\ hook = [h \in Hooks |-> IdleHook]
  /\ agentRuns = [id \in MsgIds \cup {""} |-> 0]
  /\ markRet = [id \in MsgIds \cup {""} |-> <<>>]
  /\ deliveries = 0

\* ----------------------------------------------------- run_agent (backend)
AGENT_ROUNDS == 12
\* the names the model can ask for: the send tool, another tool of TOOLS, a
\* name that is no tool
ToolNames == {"tool_send_text", "tool_get_staff", "no_such_tool"}
\* one requested call: its name, and whether json/args make the branch raise
ToolCalls == [name : ToolNames, bad : BOOLEAN]

RECURSIVE CallLists(_)
CallLists(n) ==
  IF n = 0 THEN {<<>>}
  ELSE CallLists(n - 1) \cup
       {Append(cs, c) : cs \in {x \in CallLists(n - 1) : Len(x) = n - 1},
                        c \in ToolCalls}

\* what one chat completion can return: tool calls, or content (possibly
\* empty) without tool calls
ModelReplies ==
  {[tool_calls |-> cs, content |-> FALSE] : cs \in CallLists(MaxCalls) \ {<<>>}}
    \cup {[tool_calls |-> <<>>, content |-> c] : c \in BOOLEAN}

IdleAgent == [pc |-> "idle", round |-> 0, sent_reply |-> FALSE, sends |-> 0,
              ignored |-> 0, calls |-> <<>>, k |-> 0]

\* run_agent is called
AgentStart(client) ==
  /\ agent.pc \in {"idle", "done", "raised"}
  /\ agent' = IF client THEN [IdleAgent EXCEPT !.pc = "model"]
              ELSE [IdleAgent EXCEPT !.pc = "done", !.sends = 1]
  /\ UNCHANGED agentFrame

\* one iteration of `for _ in range(12)` up to the tool calls
AgentRound(reply) ==
  /\ agent.pc = "model"
  /\ agent.round < AGENT_ROUNDS
  /\ agent' =
       IF reply.tool_calls # <<>>
       THEN [agent EXCEPT !.pc = "tools", !.round = @ + 1,
                          !.calls = reply.tool_calls, !.k = 1]
       ELSE IF reply.content /\ ~agent.sent_reply
       THEN [agent EXCEPT !.pc = "done", !.round = @ + 1,
                          !.sent_reply = TRUE, !.sends = @ + 1]
       ELSE [agent EXCEPT !.pc = "done", !.round = @ + 1]
  /\ UNCHANGED agentFrame

\* where the loop goes after the tool call at k
AfterCall(a) ==
  IF a.k < Len(a.calls) THEN [a EXCEPT !.k = @ + 1]
  ELSE IF a.sent_reply \/ a.round = AGENT_ROUNDS
  THEN [a EXCEPT !.pc = "done", !.calls = <<>>, !.k = 0]
  ELSE [a EXCEPT !.pc = "model", !.calls = <<>>, !.k = 0]

\* a tool loop without the single-send guard
AgentToolNoGuard ==
  /\ agent.pc = "tools"
  /\ LET tc == agent.calls[agent.k] IN
     agent' =
       IF tc.name = "no_such_tool" THEN AfterCall(agent)
       ELSE IF tc.bad THEN [agent EXCEPT !.pc = "raised", !.calls = <<>>, !.k = 0]
       ELSE IF tc.name = "tool_send_text"
       THEN AfterCall([agent EXCEPT !.sent_reply = TRUE, !.sends = @ + 1])
       ELSE AfterCall(agent)
  /\ UNCHANGED agentFrame

\* one tool call of the round: the if/elif chain on its name
AgentTool ==
  /\ agent.pc = "tools"
  /\ LET tc == agent.calls[agent.k] IN
     agent' =
       IF tc.name = "no_such_tool" THEN AfterCall(agent)
       ELSE IF tc.name = "tool_send_text" /\ agent.sent_reply
       THEN AfterCall([agent EXCEPT !.ignored = @ + 1])
       ELSE IF tc.bad THEN [agent EXCEPT !.pc = "raised", !.calls = <<>>, !.k = 0]
       ELSE IF tc.name = "tool_send_text"
       THEN AfterCall([agent EXCEPT !.sent_reply = TRUE, !.sends = @ + 1])
       ELSE AfterCall(agent)
  /\ UNCHANGED agentFrame

InitAgent == agent = IdleAgent

InitSide ==
  /\ retry = NoRetry
  /\ InitScanApi
  /\ InitHook
  /\ InitAgent

\* ------------------------------------------------------------ specification
\* The stores and threads of one deployment: the multi-page station app
\* (all three steps on one local store, one sync thread).
Local == {"s1"}
LocalSyncers == {"y1"}


InitTables ==
  /\ today = 0
  /\ items = [c \in ItemCodes |-> NoItem]
  /\ trays = [c \in TrayCodes |-> NoTray]
  /\ trayItems = {}
  /\ remoteErrors = [k \in Stations \X (1..(MaxScans + 1)) |-> 0]
  /\ queue = [st \in Stations |-> <<>>]
  /\ errs = [st \in Stations |-> <<>>]
  /\ nextId = [st \in Stations |-> 1]
  /\ syn = [y \in Syncers |-> Idle(1)]
  /\ rejects = 0
  /\ accepted = [k \in ScanCodes \X Steps |-> 0]
  /\ scans = 0
  /\ enq = {}
  /\ applied = {}
  /\ deleted = {}
  /\ printJobs = <<>>
  /\ pol = [p \in Pollers |-> IdlePoller]
  /\ written = [j \in 1..(MaxJobs + MaxScans + 1) |-> 0]
  /\ resp = [p \in Pollers |-> NoResp]
  /\ issued = <<>>
  /\ acked = {}
  /\ http = NoCall
  /\ probe = NoProbe
  /\ remoteEngine = TRUE
  /\ deb = NoLine
  /\ log = <<>>
  /\ InitSide

\* the scan stations' deployment: no print key configured
Init ==
  /\ InitTables
  /\ serverKey = ""
  /\ pollerKey = [p \in Pollers |-> ""]

Next ==
  \/ \E st \in Local, mode \in Steps, code \in ScanCodes,
        reachable \in BOOLEAN, dres \in DeliveryOutcomes :
       Scan(st, mode, code, reachable, dres)
  \/ \E y \in LocalSyncers : SyncRead(y)
  \/ \E y \in LocalSyncers : SyncApply(y)
  \/ \E y \in LocalSyncers : SyncCommit(y)
  \/ \E y \in LocalSyncers : SyncDelete(y)
  \/ \E y \in LocalSyncers : SyncErrRead(y)
  \/ \E y \in LocalSyncers : SyncErrCommit(y)
  \/ \E y \in LocalSyncers : SyncErrDelete(y)
  \/ \E y \in LocalSyncers : SyncFail(y)
  \/ \E code \in ItemCodes : Receive(code)
  \/ \E code \in TrayCodes : RegisterTray(code)
  \/ NextDay

Spec == Init /\ [][Next]_vars

\* _sync_loop runs a cycle every SYNC_INTERVAL for ever, and the remote store
\* is reachable again and again: each step of a cycle that is possible
\* infinitely often is eventually taken.
SyncFairness ==
  \A y \in LocalSyncers :
     /\ WF_vars(SyncRead(y))
     /\ WF_vars(SyncErrRead(y))
     /\ \A k \in 1..(MaxScans + 1) : SF_vars(SyncApply(y) /\ syn[y].i = k)
     /\ SF_vars(SyncCommit(y))
     /\ SF_vars(SyncDelete(y))
     /\ SF_vars(SyncErrCommit(y))
     /\ SF_vars(SyncErrDelete(y))

\* The scan queue and its syncer on one calendar day: the lines a validator
\* accepts (a rejected line appends nothing to the scan queue).
NextLive ==
  \/ \E st \in Local, mode \in Steps, code \in ScanCodes,
        dres \in DeliveryOutcomes :
       /\ Validate(mode, code, TRUE).ok
       /\ Scan(st, mode, code, TRUE, dres)
  \/ \E y \in LocalSyncers : SyncRead(y)
  \/ \E y \in LocalSyncers : SyncApply(y)
  \/ \E y \in LocalSyncers : SyncCommit(y)
  \/ \E y \in LocalSyncers : SyncDelete(y)
  \/ \E y \in LocalSyncers : SyncErrRead(y)
  \/ \E y \in LocalSyncers : SyncErrCommit(y)
  \/ \E y \in LocalSyncers : SyncErrDelete(y)
  \/ \E y \in LocalSyncers : SyncFail(y)
  \/ \E code \in ItemCodes : Receive(code)
  \/ \E code \in TrayCodes : RegisterTray(code)

LiveSpec == Init /\ [][NextLive]_vars /\ SyncFairness

\* The print queue with its producers and pollers; every pairing of a
\* configured or absent key on the server and on each poller.
PrintKeys == {"", "k1"}
PollerKeys == {"", "k1"}
Payloads == {[kind |-> "item", code |-> ItemA],
             [kind |-> "delivery", code |-> TrayB]}

InitPrint ==
  /\ InitTables
  /\ serverKey \in PrintKeys
  /\ pollerKey \in [Pollers -> PollerKeys]

PollerNext(P) ==
  \/ \E tspl \in Payloads : EnqueueJob(tspl)
  \/ \E p \in P : PollGet(p)
  \/ \E p \in P : PollPrint(p)
  \/ \E p \in P : PollPrintFail(p)
  \/ \E p \in P : \E delivered \in BOOLEAN : PollComplete(p, delivered)

NextPrint == PollerNext(Pollers)
SpecPrint == InitPrint /\ [][NextPrint]_vars

\* the deployment the queue is designed for: exactly one poller
NextOnePoller == PollerNext({"p1"})
SpecOnePoller == InitPrint /\ [][NextOnePoller]_vars

\* The validators called on every content of the remote tables: an item row
\* with any values of its two boolean columns (frontend/receiving.py inserts
\* items without the received mark), a tray row as the syncer and the
\* Delivery step leave it.
ItemRows ==
  {NoItem} \cup
  {[exists |-> TRUE, receiving |-> r, processing |-> FALSE,
    created_date_processing |-> NoDate] : r \in BOOLEAN} \cup
  {[exists |-> TRUE, receiving |-> r, processing |-> TRUE,
    created_date_processing |-> d] : r \in BOOLEAN, d \in 0..MaxDay}

TrayRows ==
  {NoTray} \cup
  {[exists |-> TRUE, packing |-> TRUE, delivery |-> FALSE,
    created_date_packing |-> d, created_date_delivery |-> NoDate] :
     d \in 0..MaxDay} \cup
  {[exists |-> TRUE, packing |-> TRUE, delivery |-> TRUE,
    created_date_packing |-> d, created_date_delivery |-> e] :
     d \in 0..MaxDay, e \in 0..MaxDay}

InitValidate ==
  /\ today \in 0..MaxDay
  /\ items \in [ItemCodes -> ItemRows]
  /\ trays \in [TrayCodes -> TrayRows]
  /\ trayItems \in SUBSET TrayCodes
  /\ \A c \in TrayCodes : trays[c].exists => c \in trayItems
  /\ remoteErrors = [k \in Stations \X (1..(MaxScans + 1)) |-> 0]
  /\ queue = [st \in Stations |-> <<>>]
  /\ errs = [st \in Stations |-> <<>>]
  /\ nextId = [st \in Stations |-> 1]
  /\ syn = [y \in Syncers |-> Idle(1)]
  /\ rejects = 0
  /\ accepted = [k \in ScanCodes \X Steps |-> 0]
  /\ scans = 0
  /\ enq = {}
  /\ applied = {}
  /\ deleted = {}
  /\ printJobs = <<>>
  /\ pol = [p \in Pollers |-> IdlePoller]
  /\ written = [j \in 1..(MaxJobs + MaxScans + 1) |-> 0]
  /\ resp = [p \in Pollers |-> NoResp]
  /\ issued = <<>>
  /\ acked = {}
  /\ http = NoCall
  /\ probe = NoProbe
  /\ remoteEngine \in BOOLEAN
  /\ deb = NoLine
  /\ log = <<>>
  /\ InitSide
  /\ serverKey = ""
  /\ pollerKey = [p \in Pollers |-> ""]

NextValidate ==
  \E mode \in Steps, code \in ProbeCodes, reachable \in BOOLEAN :
     Probe(mode, code, reachable)

SpecValidate == InitValidate /\ [][NextValidate]_vars

\* --- a tray scanned on day 0 only, its rows pushed that day or later
NextLaterDay ==
  \/ \E mode \in {"Packing", "Delivery"}, code \in TrayCodes :
       today = 0 /\ Scan("s1", mode, code, TRUE, "ok")
  \/ \E y \in LocalSyncers : SyncRead(y)
  \/ \E y \in LocalSyncers : SyncApply(y)
  \/ \E y \in LocalSyncers : SyncCommit(y)
  \/ \E y \in LocalSyncers : SyncDelete(y)
  \/ \E y \in LocalSyncers : SyncErrRead(y)
  \/ \E y \in LocalSyncers : SyncErrCommit(y)
  \/ \E y \in LocalSyncers : SyncErrDelete(y)
  \/ \E y \in LocalSyncers : SyncFail(y)
  \/ \E code \in TrayCodes : RegisterTray(code)
  \/ NextDay

SpecLaterDay == Init /\ [][NextLaterDay]_vars

\* --- one run of the retry wrapper, around operations of every behaviour
NextRetry ==
  \E outs \in [1..(DB_LOCK_RETRIES + 1) -> CallOutcomes] :
     retry = NoRetry /\ ExecRetryRun(outs)

SpecRetry == Init /\ [][NextRetry]_vars

\* --- the backend's scan endpoint, served by its worker threads
NextScanApi ==
  \/ \E r \in ApiThreads, token \in SentTokens, code \in SentCodes :
        ApiScanReceive(r, token, code)
  \/ \E r \in ApiThreads : ApiScanCheck(r)
  \/ \E r \in ApiThreads : ApiScanDedupe(r)
  \/ \E r \in ApiThreads : ApiScanValidate(r)
  \/ \E r \in ApiThreads : ApiScanTray(r)
  \/ \E r \in ApiThreads : ApiScanEvent(r)
  \/ ApiTick

SpecScanApi == Init /\ [][NextScanApi]_vars

\* --- the backend's webhook under redeliveries
NextHook ==
  \/ \E h \in Hooks, msgs \in WebhookPayloads : WebhookReceive(h, msgs)
  \/ \E h \in Hooks : MarkSelect(h)
  \/ \E h \in Hooks : MarkInsert(h)
  \/ \E h \in Hooks, raises \in BOOLEAN : WebhookRunAgent(h, raises)

SpecHook == Init /\ [][NextHook]_vars

\* --- runs of the agent loop, the model answering anything
NextAgent ==
  \/ \E client \in BOOLEAN : AgentStart(client)
  \/ \E reply \in ModelReplies : AgentRound(reply)
  \/ AgentTool

SpecAgent == Init /\ [][NextAgent]_vars

\* --- two Processing stations, each with its local store and its syncer,
\* --- and one received item in the remote store
InitTwoStations ==
  /\ today = 0
  /\ items = [c \in ItemCodes |->
                [exists |-> TRUE, receiving |-> TRUE, processing |-> FALSE,
                 created_date_processing |-> NoDate]]
  /\ trays = [c \in TrayCodes |-> NoTray]
  /\ trayItems = {}
  /\ remoteErrors = [k \in Stations \X (1..(MaxScans + 1)) |-> 0]
  /\ queue = [st \in Stations |-> <<>>]
  /\ errs = [st \in Stations |-> <<>>]
  /\ nextId = [st \in Stations |-> 1]
  /\ syn = [y \in Syncers |-> Idle(1)]
  /\ rejects = 0
  /\ accepted = [k \in ScanCodes \X Steps |-> 0]
  /\ scans = 0
  /\ enq = {}
  /\ applied = {}
  /\ deleted = {}
  /\ printJobs = <<>>
  /\ pol = [p \in Pollers |-> IdlePoller]
  /\ written = [j \in 1..(MaxJobs + MaxScans + 1) |-> 0]
  /\ resp = [p \in Pollers |-> NoResp]
  /\ issued = <<>>
  /\ acked = {}
  /\ http = NoCall
  /\ probe = NoProbe
  /\ remoteEngine = TRUE
  /\ deb = NoLine
  /\ log = <<>>
  /\ InitSide
  /\ serverKey = ""
  /\ pollerKey = [p \in Pollers |-> ""]

NextTwoStations ==
  \/ \E st \in Stations, code \in ItemCodes, reachable \in BOOLEAN :
       Scan(st, "Processing", code, reachable, "ok")
  \/ \E y \in Syncers : SyncRead(y)
  \/ \E y \in Syncers : SyncApply(y)
  \/ \E y \in Syncers : SyncCommit(y)
  \/ \E y \in Syncers : SyncDelete(y)
  \/ \E y \in Syncers : SyncErrRead(y)
  \/ \E y \in Syncers : SyncErrCommit(y)
  \/ \E y \in Syncers : SyncErrDelete(y)
  \/ NextDay

SpecTwoStations == InitTwoStations /\ [][NextTwoStations]_vars

\* --- one station loop on its own: the store holds a received item and a
\* --- registered tray, packed today or not yet, and no syncer runs
InitStation ==
  /\ today = 0
  /\ items = [c \in ItemCodes |->
                [exists |-> TRUE, receiving |-> TRUE, processing |-> FALSE,
                 created_date_processing |-> NoDate]]
  /\ trays \in [TrayCodes -> {NoTray,
                              [exists |-> TRUE, packing |-> TRUE,
                               delivery |-> FALSE, created_date_packing |-> 0,
                               created_date_delivery |-> NoDate]}]
  /\ trayItems = TrayCodes
  /\ remoteErrors = [k \in Stations \X (1..(MaxScans + 1)) |-> 0]
  /\ queue = [st \in Stations |-> <<>>]
  /\ errs = [st \in Stations |-> <<>>]
  /\ nextId = [st \in Stations |-> 1]
  /\ syn = [y \in Syncers |-> Idle(1)]
  /\ rejects = 0
  /\ accepted = [k \in ScanCodes \X Steps |-> 0]
  /\ scans = 0
  /\ enq = {}
  /\ applied = {}
  /\ deleted = {}
  /\ printJobs = <<>>
  /\ pol = [p \in Pollers |-> IdlePoller]
  /\ written = [j \in 1..(MaxJobs + MaxScans + 1) |-> 0]
  /\ resp = [p \in Pollers |-> NoResp]
  /\ issued = <<>>
  /\ acked = {}
  /\ http = NoCall
  /\ probe = NoProbe
  /\ remoteEngine = TRUE
  /\ deb = NoLine
  /\ log = <<>>
  /\ InitSide
  /\ serverKey = ""
  /\ pollerKey = [p \in Pollers |-> ""]

\* what a station reads: nothing, an item code, a tray code
LineCodes == {EmptyCode} \cup ScanCodes
\* attempts of _exec_retry that find the local database locked: all but the
\* last, and all of them
LockCounts == {DB_LOCK_RETRIES - 1, DB_LOCK_RETRIES}
\* tenths of a second between two lines: inside the debounce window twice
\* over, and together as long as the window
Gaps == {3, 4}
FaultCount == Cardinality({k \in 1..Len(log) : log[k].fault})

\* lines far enough apart for the debounce to let them all through, some of
\* them hit by a failure
NextStation ==
  \E mode \in Steps, code \in LineCodes, dres \in DeliveryOutcomes,
     locks \in LockCounts, eres \in BOOLEAN, stop \in Stops :
       /\ scans < MaxScans
       /\ Faulty(dres, locks, eres, stop) => FaultCount < MaxFaults
       /\ Line("s1", mode, code, DEBOUNCE_SECONDS, TRUE, dres, locks, eres,
               stop)

SpecStation == InitStation /\ [][NextStation]_vars

\* the lines of the Packing station in quick succession, nothing failing
NextDebounce ==
  \E code \in LineCodes, gap \in Gaps :
     Line("s1", "Packing", code, gap, TRUE, "ok", 0, TRUE, "none")

SpecDebounce == InitStation /\ [][NextDebounce]_vars

\* The two print endpoints serving requests of any client, with and without
\* a configured key.
InitApi ==
  /\ InitTables
  /\ serverKey \in PrintKeys
  /\ pollerKey = [p \in Pollers |-> ""]

NextApi ==
  \/ \E tspl \in Payloads : EnqueueJob(tspl)
  \/ \E header \in Headers : ApiPrintQueue(header)
  \/ \E header \in Headers, id \in 1..(MaxJobs + 1), stored \in BOOLEAN :
       ApiPrintComplete(header, id, stored)

SpecApi == InitApi /\ [][NextApi]_vars

\* The single poller with a key the server accepts, its loop running for
\* ever: the server answers and the printer writes again and again.
InitPrintLive ==
  /\ InitPrint
  /\ \A p \in Pollers : Authorised(serverKey, pollerKey[p])

NextPrintLive ==
  \/ \E tspl \in Payloads : EnqueueJob(tspl)
  \/ PollGet("p1")
  \/ PollPrint("p1")
  \/ PollPrintFail("p1")
  \/ PollComplete("p1", TRUE)
  \/ PollCompleteLost("p1")

PollerFairness ==
  /\ WF_vars(PollGet("p1"))
  /\ SF_vars(PollPrint("p1"))
  /\ SF_vars(PollComplete("p1", TRUE))

LivePrintSpec == InitPrintLive /\ [][NextPrintLive]_vars /\ PollerFairness

\* ------------------------------------------------------------------ claims
Days == 0..(MaxDay + 1)
Key(r) == <<r.st, r.id>>
InQueue(r) == \E k \in 1..Len(queue[r.st]) :
                 queue[r.st][k].id = r.id /\ queue[r.st][k].synced = 0

\* C1: at most one Processing scan of an item code is ever accepted, whether
\* or not a sync cycle has run in between (every later one is rejected with
\* ALREADY_PROCESSED).
C1_AtMostOneProcessingAccepted ==
  \A c \in ItemCodes : accepted[<<c, "Processing">>] <= 1

\* C2: a local queue row is deleted only after the remote transaction that
\* applied it has committed, and a row that no cycle has deleted (its cycles
\* failed, or none ran yet) is still in the local queue, unsynced, to be read
\* by the next cycle.
C2_DeleteOnlyAfterCommit ==
  \A r \in enq :
     /\ Key(r) \in deleted => Key(r) \in applied
     /\ Key(r) \notin deleted => InQueue(r)

\* a cycle that read a row has ended without committing it, the sync thread
\* sleeps until its next cycle and the row is still queued
C2_Witness ==
  \E y \in Syncers : \E r \in enq :
     /\ syn[y].pc = "sleep"
     /\ r.st = StationOf(y)
     /\ r.id < syn[y].mark
     /\ Key(r) \notin applied
     /\ InQueue(r)

\* C3: a row appended to the local queue after a sync thread's read of the
\* unsynced rows is not deleted by that cycle: it is still in the queue,
\* unsynced, until the thread's next read.
C3_DeleteScopedToReadIds ==
  \A y \in Syncers : \A r \in enq :
     (r.st = StationOf(y) /\ r.id >= syn[y].mark) => InQueue(r)

\* a cycle has deleted the rows it read while a row appended after its read
\* stays queued
C3_Witness ==
  \E y \in Syncers : \E r \in enq : \E d \in enq :
     /\ syn[y].pc = "errors"
     /\ r.st = StationOf(y) /\ d.st = StationOf(y)
     /\ r.id >= syn[y].mark /\ InQueue(r)
     /\ d.id < syn[y].mark /\ Key(d) \in deleted

\* the stage flags and the set of rows of the remote tables
Flags(db) ==
  [i |-> [c \in ItemCodes |-> <<db.items[c].exists, db.items[c].receiving,
                                db.items[c].processing>>],
   t |-> [c \in TrayCodes |-> <<db.trays[c].exists, db.trays[c].packing,
                                db.trays[c].delivery>>]]

\* the date columns of the stages other than step
OtherDates(db, step) ==
  [i |-> [c \in ItemCodes |->
            IF step = "Processing" THEN NoDate
            ELSE db.items[c].created_date_processing],
   p |-> [c \in TrayCodes |->
            IF step = "Packing" THEN NoDate
            ELSE db.trays[c].created_date_packing],
   d |-> [c \in TrayCodes |->
            IF step = "Delivery" THEN NoDate
            ELSE db.trays[c].created_date_delivery]]

\* C4: applying a local queue row to the remote tables a second time (on any
\* day) succeeds and leaves the stage flags, the set of entity rows and the
\* other stages' dates as after the first application.
C4_ReplayIdempotent ==
  \A r \in enq : \A d1 \in Days : \A d2 \in Days :
     LET once == ApplyRow(Db(items, trays), r, d1)
         twice == ApplyRow(once, r, d2) IN
     /\ once.ok /\ twice.ok
     /\ Flags(twice) = Flags(once)
     /\ OtherDates(twice, r.step) = OtherDates(once, r.step)

\* a later cycle has committed a batch holding a row that an earlier cycle had
\* already committed
C4_Witness ==
  \E y \in Syncers : syn[y].pc = "delete" /\ syn[y].replay

\* the remote entity of the code has the flag of the step set
StageFlagSet(code, step) ==
  CASE step = "Processing" ->
         code \in ItemCodes /\ items[code].exists /\ items[code].processing
    [] step = "Packing" ->
         code \in TrayCodes /\ trays[code].exists /\ trays[code].packing
    [] step = "Delivery" ->
         code \in TrayCodes /\ trays[code].exists /\ trays[code].delivery
    [] OTHER -> FALSE

Enqueued(k) == \E r \in enq : Key(r) = k

\* C6: with the sync loop scheduled fairly and the remote store reachable
\* again and again, every row appended to a local scan queue is eventually
\* applied to the remote store and deleted from the local queue.
C6_EveryRowEventuallySynced ==
  \A k \in Local \X (1..(MaxScans + 1)) :
     Enqueued(k) ~> (k \in applied /\ k \in deleted)

\* a row appended while a cycle was under way has been applied and deleted
C6_Witness ==
  \E r \in enq : \E y \in Syncers :
     /\ r.st = StationOf(y)
     /\ r.id > 1
     /\ Key(r) \in applied /\ Key(r) \in deleted

\* the positions of the pending rows of a print_jobs table
Pending(jobs) == {k \in 1..Len(jobs) : jobs[k].printed = 0}

\* C7: when the physical print of a job fails, the poller sends no
\* print-complete for it and the job stays printed=0; the poller's next
\* GET /print-queue returns that same job.
C7_FailedPrintIsRetried ==
  \A p \in Pollers :
     /\ pol[p].failed # 0 =>
          /\ pol[p].pc = "idle"
          /\ printJobs[pol[p].failed].printed = 0
          /\ pol[p].failed \notin acked
     /\ pol[p].retry # 0 =>
          /\ pol[p].pc = "got"
          /\ pol[p].job = JobView(printJobs[pol[p].retry])
          /\ printJobs[pol[p].retry].printed = 0

\* after a failed print and the enqueue of a newer job, the next GET has
\* handed the failed job out again
C7_Witness ==
  \E p \in Pollers :
     pol[p].retry # 0 /\ pol[p].pc = "got" /\ Len(printJobs) > pol[p].retry

\* C8: with one poller or several, a job with printed=1 has been written to
\* the physical printer successfully at least once.
C8_PrintedWasWritten ==
  \A k \in 1..Len(printJobs) :
     printJobs[k].printed = 1 => written[printJobs[k].id] >= 1

\* a job is marked printed after two pollers both wrote it
C8_Witness ==
  \E k \in 1..Len(printJobs) :
     printJobs[k].printed = 1 /\ written[printJobs[k].id] >= 2

\* C9: an authorised GET /print-queue answers with at most one job, the
\* pending job with the smallest id, and with an empty list exactly when no
\* job is pending; a refused one shows no job.
C9_OldestPendingFirst ==
  \A p \in Pollers :
     LET r == resp[p]
         pend == Pending(r.seen) IN
     /\ Len(r.jobs) <= 1
     /\ r.status = 403 => r.jobs = <<>>
     /\ r.status = 200 =>
          /\ (r.jobs = <<>>) <=> (pend = {})
          /\ r.jobs # <<>> =>
               \E k \in pend :
                  /\ r.jobs[1] = [id |-> r.seen[k].id, tspl |-> r.seen[k].tspl]
                  /\ \A m \in pend : r.seen[k].id <= r.seen[m].id

\* a GET answered with the older of two pending jobs
C9_Witness ==
  \E p \in Pollers :
     /\ resp[p].status = 200
     /\ resp[p].jobs # <<>>
     /\ resp[p].jobs[1].id = 1
     /\ Pending(resp[p].seen) = {1, 2}

\* C10: with one job enqueued into an empty queue, GET /print-queue returns
\* that job with the id the enqueue returned until print-complete has been
\* answered ok for that id, and an empty list afterwards.
C10_EnqueueGetCompleteGet ==
  \A p \in Pollers :
     LET r == resp[p] IN
     (r.status = 200 /\ Len(r.seen) = 1) =>
        IF issued[1] \in r.acked
        THEN r.jobs = <<>>
        ELSE r.jobs = <<[id |-> issued[1], tspl |-> r.seen[1].tspl]>>

\* the job was returned, completed, and the following GET came back empty
C10_Witness ==
  \E p \in Pollers :
     /\ resp[p].status = 200
     /\ Len(resp[p].seen) = 1
     /\ issued[1] \in resp[p].acked
     /\ resp[p].jobs = <<>>
     /\ written[issued[1]] >= 1

\* C11: with the poller's loop scheduled fairly, the print server answering
\* and the printer writing again and again, every enqueued print job is
\* eventually written to the printer and marked printed=1, whatever jobs are
\* queued before or after it.
C11_EveryJobEventuallyPrinted ==
  \A j \in 1..(MaxJobs + 1) :
     (Len(printJobs) >= j) ~>
        (Len(printJobs) >= j /\ printJobs[j].printed = 1 /\ written[j] >= 1)

\* the second job is printed and marked after the first one needed two
\* writes
C11_Witness ==
  /\ Len(printJobs) >= 2
  /\ printJobs[2].printed = 1 /\ written[2] >= 1
  /\ printJobs[1].printed = 1 /\ written[1] >= 2

C13_WrongKeyIsForbidden ==
  http.op # "none" =>
     IF serverKey # "" /\ http.header # serverKey
     THEN /\ http.status = 403
          /\ http.jobs = <<>>
          /\ ~http.ok
          /\ http.after = http.before
     ELSE /\ http.status \in {200, 500}
          /\ http.op = "GET" =>
               /\ http.status = 200
               /\ (http.jobs = <<>>) <=> (Pending(http.before) = {})

\* a print-complete for a pending job, sent with another key than the
\* configured one, was refused
C13_Witness ==
  /\ serverKey # ""
  /\ http.op = "POST"
  /\ http.header \notin {"", serverKey}
  /\ http.status = 403
  /\ http.id \in Pending(http.before)
  /\ http.id \in Pending(printJobs)

\* C14: an authorised POST /print-complete either sets printed=1 and the
\* printed timestamp of the job with the given id and answers {"ok": true},
\* or (storage failure) answers 500 with a detail message and leaves every
\* job as it was; jobs with another id are never changed.
C14_CompleteMarksOnlyThatJob ==
  (http.op = "POST" /\ http.status # 403) =>
     /\ Len(http.after) = Len(http.before)
     /\ \/ /\ http.status = 200 /\ http.ok
            /\ \A k \in 1..Len(http.before) :
                  http.after[k] =
                    IF http.before[k].id = http.id
                    THEN [http.before[k] EXCEPT !.printed = 1,
                                                !.printed_at = TRUE]
                    ELSE http.before[k]
        \/ /\ http.status = 500 /\ ~http.ok
            /\ http.detail # ""
            /\ http.after = http.before

\* the newer of two pending jobs was marked printed and the older one is
\* still pending
C14_Witness ==
  /\ http.op = "POST" /\ http.status = 200 /\ http.id = 2
  /\ Pending(http.before) = {1, 2}
  /\ Pending(http.after) = {1}

\* the pipeline label of a tray as the remote store records it: delivered
\* when the last delivery is not older than the last packing
TrayLabel(c) ==
  IF c \notin trayItems THEN "unregistered"
  ELSE IF ~trays[c].exists \/ ~trays[c].packing THEN "registered"
  ELSE IF trays[c].delivery /\
          trays[c].created_date_delivery >= trays[c].created_date_packing
       THEN "delivered"
  ELSE "packed"

\* C15: for a well-formed tray code, on the day the scenario starts: a
\* Packing scan before registration is rejected with TRAY_NOT_REGISTERED;
\* once registered, a first Packing scan is accepted; after an accepted
\* Packing scan the Delivery scan is accepted whether or not a sync cycle ran
\* in between; after a Delivery scan that marked the tray, a further one is
\* rejected with ALREADY_DELIVERED_TODAY.
C15_TrayScenario ==
  \A c \in TrayCodes :
     today = 0 =>
       /\ c \notin trayItems =>
            ValidatePacking(c, TRUE) = Reject("TRAY_NOT_REGISTERED")
       /\ (c \in trayItems /\ accepted[<<c, "Packing">>] = 0) =>
            ValidatePacking(c, TRUE).ok
       /\ (accepted[<<c, "Packing">>] >= 1 /\ accepted[<<c, "Delivery">>] = 0)
            => ValidateDelivery(c, TRUE).ok
       /\ (accepted[<<c, "Delivery">>] >= 1 /\ trays[c].delivery) =>
            ValidateDelivery(c, TRUE) = Reject("ALREADY_DELIVERED_TODAY")

\* C17: the Delivery validator accepts a tray only when its label is packed
\* (packed and not delivered since); an absent, registered-unpacked or
\* delivered tray is rejected, on the day of its delivery and on later days.
C17_DeliveryOnlyWhenPacked ==
  \A c \in TrayCodes :
     ValidateDelivery(c, TRUE).ok => TrayLabel(c) = "packed"

\* C18: for every tray code and stage Packing or Delivery, at most one scan
\* of the code at the stage is accepted per calendar day, over all stations
\* and interleavings with sync cycles: the days so far being 0..today, no
\* more than today + 1 scans of it have been accepted.
C18_OneAcceptedPerDay ==
  \A c \in TrayCodes : \A step \in {"Packing", "Delivery"} :
     accepted[<<c, step>>] <= today + 1

\* C19: in the remote store no step (scan, delivery UPDATE, sync commit,
\* replay of a row) takes an item or tray row away or turns a set stage flag
\* (receiving, processing, packing, delivery) off.
C19_FlagsOnlyAdvance ==
  [][ /\ \A c \in ItemCodes :
           /\ items[c].exists => items'[c].exists
           /\ items[c].receiving => items'[c].receiving
           /\ items[c].processing => items'[c].processing
      /\ \A t \in TrayCodes :
           /\ trays[t].exists => trays'[t].exists
           /\ trays[t].packing => trays'[t].packing
           /\ trays[t].delivery => trays'[t].delivery
      /\ trayItems \subseteq trayItems' ]_vars

\* a sync cycle that read the Packing row of a tray is about to commit it
\* over the row of the tray, which a Delivery scan has marked delivered
\* meanwhile
C19_Witness ==
  \E y \in Syncers : \E c \in TrayCodes :
     /\ syn[y].pc = "scans"
     /\ syn[y].ops # <<>>
     /\ syn[y].ops[1].kind = "update_packing"
     /\ syn[y].ops[1].code = c
     /\ trays[c].packing /\ trays[c].delivery

\* C16: for a code with the BHN- prefix and a reachable store, the
\* Processing validator answers from the item's row alone:
\* INGREDIENT_NOT_FOUND without a row, NOT_RECEIVED for a row without the
\* received mark, ALREADY_PROCESSED for a processed one, and accepts exactly a
\* received, unprocessed item; the first of these that applies is returned.
C16_ProcessingByItemState ==
  (/\ probe.mode = "Processing"
   /\ StartsWith(probe.code, BHN_PREFIX)
   /\ remoteEngine /\ probe.reachable) =>
     LET c == probe.code
         found == c \in ItemCodes /\ items[c].exists IN
     /\ probe.ok <=> (found /\ items[c].receiving /\ ~items[c].processing)
     /\ probe.reason =
          IF ~found THEN "INGREDIENT_NOT_FOUND"
          ELSE IF ~items[c].receiving THEN "NOT_RECEIVED"
          ELSE IF items[c].processing THEN "ALREADY_PROCESSED"
          ELSE ""

\* an item row that is both unreceived and processed was answered with the
\* earlier reason
C16_Witness ==
  /\ probe.mode = "Processing" /\ remoteEngine /\ probe.reachable
  /\ probe.code \in ItemCodes
  /\ items[probe.code].exists
  /\ ~items[probe.code].receiving /\ items[probe.code].processing
  /\ probe.reason = "NOT_RECEIVED"

\* the code fails the format check of the stage
Malformed(mode, code) ==
  \/ code.len = 0
  \/ code.prefix # (IF mode = "Processing" THEN BHN_PREFIX ELSE TRAY_PREFIX)
  \/ mode # "Processing" /\ code.len # TRAY_LEN

\* C20: a code that is empty, lacks the prefix of the stage or (tray stages)
\* is not exactly 12 characters long is rejected with a format reason and
\* without any query to a store, whether the store is reachable or not.
C20_FormatRejectsBeforeStore ==
  (probe.mode # "" /\ Malformed(probe.mode, probe.code)) =>
     /\ ~probe.ok
     /\ probe.reads = <<>>
     /\ probe.reason \in {"EMPTY_SCAN", "NOT_AN_INGREDIENT_CODE",
                          "NOT_A_TRAY_CODE", "INVALID_TRAY_ID_LENGTH"}

\* a registered tray's code cut one character short was rejected for its
\* length while the store was unreachable
C20_Witness ==
  /\ probe.mode = "Packing"
  /\ probe.code = TrayShort
  /\ ~probe.reachable
  /\ probe.reason = "INVALID_TRAY_ID_LENGTH"
  /\ probe.reads = <<>>

\* C21: a validator that cannot reach its data source (the remote read
\* raises, or no remote store handle is configured) rejects the well-formed
\* code with the unreachable reason, distinct from the not-found and
\* wrong-stage reasons, and never accepts.
C21_UnreachableIsDistinct ==
  (/\ probe.mode # ""
   /\ ~Malformed(probe.mode, probe.code)
   /\ ~remoteEngine \/ ~probe.reachable) =>
     /\ ~probe.ok
     /\ probe.reason = "SUPABASE_UNREACHABLE"

\* the last line read and the position of the line handled before it
LastLine == log[Len(log)]
Handled(k) == log[k].out # "dropped"
PrevHandled(k) ==
  IF \E j \in 1..(k - 1) : Handled(j)
  THEN CHOOSE j \in 1..(k - 1) :
         Handled(j) /\ \A i \in (j + 1)..(k - 1) : ~Handled(i)
  ELSE 0

\* C22 as stated: a line whose code equals the code of the line handled just
\* before it, read within the debounce window of that line, is dropped: no
\* status block, no local queue row, no scan error row.
C22_RepeatIsDropped ==
  [][(/\ Len(log) >= 1
      /\ Len(log') = Len(log) + 1
      /\ Handled(Len(log))
      /\ log'[Len(log')].code = LastLine.code
      /\ log'[Len(log')].t - LastLine.t < DEBOUNCE_SECONDS)
     => /\ log'[Len(log')].out = "dropped"
        /\ UNCHANGED <<queue, errs, printJobs, scans>>]_vars

\* C22 (amended): a line whose non-empty code equals the code of the line
\* handled just before it, read within the debounce window of that line, is
\* dropped: no status block, no local queue row, no scan error row; the line
\* before it was reported once.
C22_NonEmptyRepeatIsDropped ==
  [][(/\ Len(log) >= 1
      /\ Len(log') = Len(log) + 1
      /\ Handled(Len(log))
      /\ log'[Len(log')].code = LastLine.code
      /\ LastLine.code.len > 0
      /\ log'[Len(log')].t - LastLine.t < DEBOUNCE_SECONDS)
     => /\ log'[Len(log')].out = "dropped"
        /\ LastLine.out \in {"SUKSES", "GAGAL"}
        /\ UNCHANGED <<queue, errs, printJobs, scans>>]_vars

C22_Witness ==
  /\ Len(log) = 2
  /\ log[1].code = TrayB /\ log[1].out = "SUKSES"
  /\ log[2].code = TrayB /\ log[2].out = "dropped"
  /\ log[2].t - log[1].t < DEBOUNCE_SECONDS
  /\ Len(queue["s1"]) = 1 /\ Len(errs["s1"]) = 0

\* C23: a line whose code differs from the code of the line handled last,
\* or that is read at least the debounce window after that line, is handled
\* and reported; dropped lines in between do not matter.
C23_OnlyRepeatsAreDropped ==
  \A k \in 1..Len(log) :
     LET j == PrevHandled(k) IN
     (\/ j = 0
      \/ log[k].code # log[j].code
      \/ log[k].t - log[j].t >= DEBOUNCE_SECONDS)
       => log[k].out \in {"SUKSES", "GAGAL"}

C23_Witness ==
  /\ Len(log) = 3
  /\ \A k \in 1..3 : log[k].code = TrayB
  /\ Handled(1) /\ ~Handled(2) /\ Handled(3)
  /\ log[3].t - log[2].t < DEBOUNCE_SECONDS

\* the line a step has just added to the log
NewLine == log'[Len(log')]
Reads == Len(log') = Len(log) + 1

\* C24: every line the validator rejects, the process staying alive, gets
\* one GAGAL block and one scan error row in the local error log, also when
\* the local error write finds the database locked or fails.
C24_RejectedIsSignalledAndLogged ==
  [][(/\ Reads
      /\ ~NewLine.vok
      /\ NewLine.out \notin {"dropped", "none"})
     => /\ NewLine.out = "GAGAL"
        /\ Len(errs'["s1"]) = Len(errs["s1"]) + 1]_vars

\* C25: a scan the validator rejects (its scan error row carries the
\* validator's reason) leaves the local queue, the print jobs and the items
\* and trays of the store as they are; the steps of the syncer that read,
\* push and delete scan errors change no item or tray, and a step that
\* changes the scan error logs and no item or tray changes no answer of a
\* validator.
C25_RejectionOnlyLogs ==
  [][/\ \A st \in Local :
          (/\ Len(errs'[st]) = Len(errs[st]) + 1
           /\ errs'[st][Len(errs'[st])].reason # "EXCEPTION")
          => UNCHANGED <<queue, printJobs, items, trays, trayItems>>
     /\ \A y \in LocalSyncers :
          (/\ syn[y].pc \in {"errors", "errpush", "errdelete"}
           /\ syn'[y] # syn[y])
          => UNCHANGED <<queue, printJobs, items, trays, trayItems>>
     /\ (/\ errs' # errs \/ remoteErrors' # remoteErrors
         /\ UNCHANGED <<items, trays, trayItems>>)
        => \A mode \in Steps, code \in ScanCodes, reachable \in BOOLEAN :
              Validate(mode, code, reachable)' =
                Validate(mode, code, reachable)]_vars

C25_Witness ==
  /\ rejects = 1
  /\ errs["s1"] = <<>>
  /\ \E k \in DOMAIN remoteErrors : remoteErrors[k] > 0
  /\ queue["s1"] = <<>> /\ printJobs = <<>>
  /\ \A c \in ItemCodes : ~items[c].exists
  /\ \A c \in TrayCodes : ~trays[c].exists

\* C26: whatever raises while a line is handled, the line gets one GAGAL
\* block with the exception's text, one more attempt to write a scan error
\* row, and the loop stays up for the next line.
C26_ExceptionDoesNotStopLoop ==
  [][(Reads /\ NewLine.raised)
     => /\ NewLine.out = "GAGAL"
        /\ NewLine.reason = "EXCEPTION"
        /\ deb'.up
        /\ \/ errs' = errs
           \/ /\ Len(errs'["s1"]) = Len(errs["s1"]) + 1
              /\ errs'["s1"][Len(errs'["s1"])].reason = "EXCEPTION"]_vars

C26_Witness ==
  /\ Len(log) = 2
  /\ log[1].out = "GAGAL" /\ log[1].reason = "EXCEPTION"
  /\ log[2].out = "SUKSES"
  /\ deb.up

\* C27: when the print enqueue of an accepted Delivery scan fails, the scan
\* is still reported accepted and its local queue row and the delivered mark
\* remain.
C27_PrintFailureKeepsAccept ==
  [][\A code \in LineCodes, eres \in BOOLEAN :
       (/\ Validate("Delivery", code, TRUE).ok
        /\ Line("s1", "Delivery", code, DEBOUNCE_SECONDS, TRUE, "print_fail",
                DB_LOCK_RETRIES - 1, eres, "none"))
       => /\ NewLine.out = "SUKSES"
          /\ Len(queue'["s1"]) = Len(queue["s1"]) + 1
          /\ trays'[code].delivery]_vars

\* C28: a Delivery line reported SUKSES has added one local queue row and
\* one print job, printed = 0, carrying the allocation label; a line of
\* another stage, and a line the validator rejected, adds no print job.
C28_DeliveryEnqueuesOneJob ==
  [][Reads =>
      /\ (NewLine.out = "SUKSES" /\ NewLine.mode = "Delivery")
         => /\ Len(queue'["s1"]) = Len(queue["s1"]) + 1
            /\ queue'["s1"][Len(queue'["s1"])].code = NewLine.code
            /\ Len(printJobs') = Len(printJobs) + 1
            /\ printJobs'[Len(printJobs')].printed = 0
            /\ printJobs'[Len(printJobs')].tspl = DeliveryTspl(NewLine.code)
            /\ \A j \in 1..Len(printJobs) : printJobs'[j] = printJobs[j]
      /\ (NewLine.mode # "Delivery" \/ ~NewLine.vok)
         => printJobs' = printJobs]_vars

C28_Witness ==
  /\ Len(log) = 2
  /\ log[1].mode = "Processing" /\ log[1].out = "SUKSES"
  /\ log[2].mode = "Delivery" /\ log[2].out = "SUKSES"
  /\ Len(printJobs) = 1
  /\ Len(queue["s1"]) = 2

\* C29: a line is reported SUKSES only with its row in the local queue,
\* wherever the process died while it handled that line or a later one.
C29_RowBeforeSukses ==
  \A k \in 1..Len(log) :
     log[k].out = "SUKSES" =>
       \E i \in 1..Len(queue[log[k].st]) :
          /\ queue[log[k].st][i].id = log[k].id
          /\ queue[log[k].st][i].code = log[k].code
          /\ queue[log[k].st][i].step = log[k].mode

C29_Witness ==
  /\ Len(log) = 2
  /\ log[1].out = "SUKSES"
  /\ log[2].out = "none" /\ log[2].vok
  /\ Len(queue["s1"]) = 2

\* C30: a sync cycle whose scan push fails while scan errors wait in the
\* local error log still pushes them: it does not go back to sleep from the
\* scan push.
C30_ErrorPushIndependent ==
  [][\A y \in LocalSyncers :
       (/\ syn[y].pc \in {"scans", "delete"}
        /\ SelectUnsynced(errs[StationOf(y)]) # <<>>)
       => syn'[y].pc # "sleep"]_vars

Unlocked == {k \in 1..DB_LOCK_RETRIES : retry.outs[k] # "locked"}
FirstUnlocked == CHOOSE k \in Unlocked : \A j \in Unlocked : k <= j

\* C32: _exec_retry calls the operation at most DB_LOCK_RETRIES times; it
\* returns at the first call that succeeds, calls again only after a locked
\* or busy error, raises any other error at once, and after
\* DB_LOCK_RETRIES locked calls raises the last error, which the scan loop
\* reports as GAGAL.
C32_RetryIsBounded ==
  retry.result # "none" =>
    /\ retry.calls \in 1..DB_LOCK_RETRIES
    /\ IF Unlocked = {}
       THEN /\ retry.calls = DB_LOCK_RETRIES
            /\ retry.result = "raise" /\ retry.err = "locked"
       ELSE /\ retry.calls = FirstUnlocked
            /\ retry.outs[FirstUnlocked] = "ok"
                 => retry.result = "ok" /\ retry.err = "none"
            /\ retry.outs[FirstUnlocked] = "error"
                 => retry.result = "raise" /\ retry.err = "error"
    /\ retry.result = "raise" =>
         \A mode \in Steps, ok \in BOOLEAN :
            Handle(mode, [ok |-> ok, reason |-> "r"], "ok", retry.result,
                   TRUE, "none").out = "GAGAL"

C32_Witness ==
  /\ retry.result # "none"
  /\ \A k \in 1..DB_LOCK_RETRIES : retry.outs[k] = "locked"
  /\ retry.outs[DB_LOCK_RETRIES + 1] = "ok"
  /\ retry.calls = DB_LOCK_RETRIES
  /\ retry.result = "raise"

\* C33: with every scan made on day 0, on a later day the Packing scan of a
\* registered tray is not answered ALREADY_PACKED_TODAY and the Delivery
\* scan of a packed tray is not answered ALREADY_DELIVERED_TODAY, whatever
\* the day the syncer pushed the rows of day 0.
C33_FirstScanOfLaterDay ==
  today >= 1 =>
    \A c \in TrayCodes :
       /\ Validate("Packing", c, TRUE).reason # "ALREADY_PACKED_TODAY"
       /\ Validate("Delivery", c, TRUE).reason # "ALREADY_DELIVERED_TODAY"

\* C34: a handled line is reported SUKSES exactly when a local queue row
\* was appended for it, and a line reported GAGAL leaves no local queue row
\* and no delivered mark.
C34_ReportAgreesWithRecord ==
  [][(Reads /\ NewLine.out \in {"SUKSES", "GAGAL"})
     => /\ NewLine.out = "SUKSES"
            <=> Len(queue'["s1"]) = Len(queue["s1"]) + 1
        /\ NewLine.out = "GAGAL" => queue' = queue /\ trays' = trays]_vars

\* C35: the remote writes of one cycle's scan push are one transaction:
\* until it commits no step of the syncer changes an item or a tray, the
\* commit covers every row read, and a cycle that fails in the push leaves
\* the store as it was and every row of its batch in the local queue.
C35_ScanPushAllOrNothing ==
  [][\A y \in LocalSyncers :
       (syn[y].pc = "scans" /\ syn'[y] # syn[y]) =>
         IF syn'[y].pc = "delete"
         THEN Keys(StationOf(y), RowIds(syn[y].rows)) \subseteq applied'
         ELSE /\ UNCHANGED <<items, trays, trayItems, queue, applied>>
              /\ RowIds(syn[y].rows) \subseteq RowIds(queue'[StationOf(y)])
    ]_vars

C35_Witness ==
  \E y \in LocalSyncers :
     /\ syn[y].pc = "sleep"
     /\ Len(queue[StationOf(y)]) = 2
     /\ \A k \in 1..2 :
          /\ queue[StationOf(y)][k].id < syn[y].mark
          /\ queue[StationOf(y)][k].step = "Packing"
          /\ <<StationOf(y), queue[StationOf(y)][k].id>> \notin applied
     /\ \A c \in TrayCodes : ~trays[c].exists

\* C36: no local scan error row has more than one copy in the remote error
\* log, whatever cycles fail and are retried.
C36_ErrorRowPushedOnce ==
  \A k \in DOMAIN remoteErrors : remoteErrors[k] <= 1

\* the ids of the jobs in the table
JobIds(jobs) == {jobs[k].id : k \in 1..Len(jobs)}

\* C37: a print-complete for an id that was completed before, or that names
\* no job, answers ok and changes no job; a job with printed = 1 never goes
\* back to 0 and is never in the answer of GET /print-queue.
C37_CompleteIsIdempotent ==
  [][/\ (/\ http' # http /\ http'.op = "POST" /\ http'.ok
         /\ \/ \E k \in 1..Len(printJobs) :
                  printJobs[k].id = http'.id /\ printJobs[k].printed = 1
            \/ http'.id \notin JobIds(printJobs))
        => printJobs' = printJobs
     /\ \A k \in 1..Len(printJobs) :
          printJobs[k].printed = 1 =>
            /\ printJobs'[k].printed = 1
            /\ printJobs'[k].id = printJobs[k].id
     /\ (http' # http /\ http'.op = "GET") =>
          \A i \in 1..Len(http'.jobs) :
             \A k \in 1..Len(printJobs) :
                printJobs[k].id = http'.jobs[i].id =>
                  printJobs[k].printed = 0]_vars

C37_Witness ==
  /\ http.op = "POST" /\ http.ok
  /\ \E k \in 1..Len(http.before) :
        http.before[k].id = http.id /\ http.before[k].printed = 1
  /\ http.after = http.before
  /\ Pending(http.before) # {}

\* the division of the event of the same tray before events[k]
PrevDivision(k) == DbLastEvent(SubSeq(events, 1, k - 1), events[k].tray).division

\* C38: in the event log written by POST /api/scan every packing event of a
\* tray comes right after a processing event of that tray and every delivery
\* event right after a packing event, also with requests served concurrently.
C38_LogRespectsChain ==
  \A k \in 1..Len(events) :
     PREV_REQUIRED(events[k].division) # "none" =>
       PrevDivision(k) = PREV_REQUIRED(events[k].division)

\* the calls of mark_inbound_seen(id) that returned before call k did
ReturnedBefore(id, k) == {j \in 1..(k - 1) : markRet[id][j] # "raise"}

\* C39: run_agent is called at most once per message id over all
\* deliveries; the first call of mark_inbound_seen that returns for an id
\* returns False and every later one True; a message without an id is never
\* answered as seen.
C39_AgentOncePerMessage ==
  /\ \A id \in MsgIds : agentRuns[id] <= 1
  /\ \A id \in MsgIds : \A k \in 1..Len(markRet[id]) :
        /\ markRet[id][k] = "False" => ReturnedBefore(id, k) = {}
        /\ markRet[id][k] = "True" => ReturnedBefore(id, k) # {}
  /\ \A k \in 1..Len(markRet[""]) : markRet[""][k] = "False"

C39_Witness ==
  /\ agentRuns["m1"] = 1
  /\ \E k \in 1..Len(markRet["m1"]) : markRet["m1"][k] = "True"
  /\ \E k \in 1..Len(markRet["m1"]) : markRet["m1"][k] = "raise"
  /\ Len(markRet[""]) >= 1

\* the step is a step of one run (no new call of run_agent)
SameRun == agent.pc \in {"model", "tools"}

\* C40: one run of the agent loop sends at most one message: a send request
\* after the first send is ignored, the free-text reply is sent only when
\* nothing was sent before, and the run makes at most 12 model rounds.
C40_SingleSend ==
  [][/\ agent'.sends <= 1
     /\ agent'.round <= AGENT_ROUNDS
     /\ (SameRun /\ agent.sent_reply) => agent'.sends = agent.sends
     /\ (SameRun /\ agent'.sends > agent.sends) => ~agent.sent_reply
     /\ (SameRun /\ agent.pc = "tools" /\ agent.sent_reply
           /\ agent.calls[agent.k].name = "tool_send_text")
          => agent'.ignored = agent.ignored + 1
     /\ (SameRun /\ agent'.pc = "model") => agent'.round < AGENT_ROUNDS]_vars

C40_Witness ==
  /\ agent.pc = "done"
  /\ agent.sends = 1
  /\ agent.ignored >= 1
  /\ agent.round = AGENT_ROUNDS

====
